---- MODULE Spec2Model ----
(***************************************************************************)
(* A model of the jayS pipeline: a token vector is parsed by the           *)
(* recursive-descent Parser into a statement list, which the tree-walking  *)
(* Interpreter executes against a chain of Environment frames.             *)
(***************************************************************************)
EXTENDS Integers, Sequences, FiniteSets, TLC

\* ------------------------------------------------------------------------
\* Option<T>
\* ------------------------------------------------------------------------
None == [some |-> FALSE]

Some(x) == [some |-> TRUE, v |-> x]

\* ------------------------------------------------------------------------
\* Tokens (lexer.rs TokenType / Token).  A token is a record with its
\* token_type tag, the payload of the three literal carriers, and its
\* line and column.
\* ------------------------------------------------------------------------
T(type) == [token_type |-> type]

Id(name) == [token_type |-> "Identifier", text |-> name]

\* An f64 of a number literal, carried as the exact fraction num/den in
\* lowest terms; Whole(n) is the one of the integer n.
Whole(n) == [num |-> n, den |-> 1]

Num(n) == [token_type |-> "Number", number |-> Whole(n)]

Str(s) == [token_type |-> "String", text |-> s]

\* ------------------------------------------------------------------------
\* AST (parser.rs Expr / Stmt)
\* ------------------------------------------------------------------------
ExprNumber(n) == [e |-> "Number", value |-> n]

ExprString(s) == [e |-> "String", value |-> s]

ExprBoolean(b) == [e |-> "Boolean", value |-> b]

ExprNull == [e |-> "Null"]

ExprVariable(name) == [e |-> "Variable", name |-> name]

ExprBinary(left, operator, right) ==
    [e |-> "Binary", left |-> left, operator |-> operator, right |-> right]

ExprUnary(operator, right) == [e |-> "Unary", operator |-> operator, right |-> right]

ExprAssign(name, value) == [e |-> "Assign", name |-> name, value |-> value]

ExprCall(callee, arguments) == [e |-> "Call", callee |-> callee, arguments |-> arguments]

ExprFunction(parameters, body) == [e |-> "Function", parameters |-> parameters, body |-> body]

StmtExpression(expr) == [s |-> "Expression", expr |-> expr]

StmtDeclaration(name, initializer) ==
    [s |-> "Declaration", name |-> name, initializer |-> initializer]

StmtBlock(statements) == [s |-> "Block", statements |-> statements]

StmtIf(condition, then_branch, else_branch) ==
    [s |-> "If", condition |-> condition, then_branch |-> then_branch,
     else_branch |-> else_branch]

StmtWhile(condition, body) == [s |-> "While", condition |-> condition, body |-> body]

StmtReturn(value) == [s |-> "Return", value |-> value]

StmtFunction(name, parameters, body) ==
    [s |-> "Function", name |-> name, parameters |-> parameters, body |-> body]

\* ------------------------------------------------------------------------
\* Parser (parser.rs).  `toks` is Parser.tokens, `cur` is Parser.current
\* (0-based as in the source, so the current token is toks[cur + 1]).
\* Every parsing function returns either POk(node, cur') or PErr(error).
\* ------------------------------------------------------------------------
MaxParams == 255

POk(node, cur) == [err |-> FALSE, node |-> node, current |-> cur]

PErr(error) == [err |-> TRUE, error |-> error]

peek(toks, cur) == toks[cur + 1]

previous(toks, cur) == toks[cur]

\* A parser that never sees the end of the stream.
is_at_end_never(toks, cur) == FALSE

is_at_end(toks, cur) == peek(toks, cur).token_type = "EOF"

\* Token kinds are compared ignoring the payload.
check(toks, cur, type) ==
    IF is_at_end(toks, cur) THEN FALSE ELSE peek(toks, cur).token_type = type

\* advance: the cursor after consuming one token.
advance(toks, cur) == IF ~is_at_end(toks, cur) THEN cur + 1 ELSE cur

\* match_token: does the current token have one of `types` (the cursor
\* then advances by one).
match_token(toks, cur, types) == \E type \in types : check(toks, cur, type)

error(toks, cur, message) ==
    [kind |-> "ParserError", line |-> peek(toks, cur).line,
     column |-> peek(toks, cur).column, message |-> message]

consume(toks, cur, type, message) ==
    IF check(toks, cur, type) THEN POk(previous(toks, advance(toks, cur)), advance(toks, cur))
    ELSE PErr(error(toks, cur, message))

\* The operator tokens of each binary level and the BinaryOp each maps to.
BinaryOpOf(type) ==
    CASE type = "Plus" -> "Add"
      [] type = "Minus" -> "Subtract"
      [] type = "Star" -> "Multiply"
      [] type = "Slash" -> "Divide"
      [] type = "EqualEqual" -> "Equal"
      [] type = "BangEqual" -> "NotEqual"
      [] type = "Less" -> "Less"
      [] type = "LessEqual" -> "LessEqual"
      [] type = "Greater" -> "Greater"
      [] type = "GreaterEqual" -> "GreaterEqual"
      [] type = "And" -> "And"
      [] type = "Or" -> "Or"

UnaryOpOf(type) ==
    CASE type = "Bang" -> "Not"
      [] type = "Minus" -> "Negate"

OrOps == {"Or"}

AndOps == {"And"}

EqualityOps == {"BangEqual", "EqualEqual"}

ComparisonOps == {"Greater", "GreaterEqual", "Less", "LessEqual"}

TermOps == {"Minus", "Plus"}

FactorOps == {"Slash", "Star"}

UnaryOps == {"Bang", "Minus"}

\* A fold that nests a chain of binary operators to the right.
FoldBinaryRight(expr, operator, right) ==
    IF expr.e = "Binary"
    THEN ExprBinary(expr.left, expr.operator, ExprBinary(expr.right, operator, right))
    ELSE ExprBinary(expr, operator, right)

\* `expr = Expr::Binary(Box::new(expr), operator, Box::new(right))`
FoldBinary(expr, operator, right) == ExprBinary(expr, operator, right)

\* The `?` operator on the result of a parsing function: an Err returns at
\* once, an Ok goes on with the rest `K` of the function.
PTry(r, K(_)) == IF r.err THEN r ELSE K(r)

RECURSIVE declaration(_, _), statement(_, _), block(_, _), block_loop(_, _, _)
RECURSIVE expression(_, _), assignment(_, _)
RECURSIVE or(_, _), or_loop(_, _, _), and(_, _), and_loop(_, _, _)
RECURSIVE equality(_, _), equality_loop(_, _, _)
RECURSIVE comparison(_, _), comparison_loop(_, _, _)
RECURSIVE term(_, _), term_loop(_, _, _), factor(_, _), factor_loop(_, _, _)
RECURSIVE unary(_, _), call_expr(_, _), call_loop(_, _, _)
RECURSIVE finish_call(_, _, _), arguments_loop(_, _, _)
RECURSIVE primary(_, _), parameters_loop(_, _, _)

\* The parameter list shared by function_declaration and the function
\* literal of primary: `loop { ... }` over identifiers separated by commas.
parameters_loop(toks, cur, parameters) ==
    IF Len(parameters) >= MaxParams
    THEN PErr(error(toks, cur, "Cannot have more than 255 parameters."))
    ELSE IF peek(toks, cur).token_type # "Identifier"
    THEN PErr(error(toks, cur, "Expected parameter name."))
    ELSE IF match_token(toks, advance(toks, cur), {"Comma"})
    THEN parameters_loop(toks, advance(toks, cur) + 1,
                         Append(parameters, peek(toks, cur).text))
    ELSE POk(Append(parameters, peek(toks, cur).text), advance(toks, cur))

\* `(` already consumed by the caller's consume; parses `params? ) { block`.
function_rest(toks, cur) ==
    PTry(IF ~check(toks, cur, "RightParen") THEN parameters_loop(toks, cur, <<>>)
         ELSE POk(<<>>, cur),
         LAMBDA ps :
    PTry(consume(toks, ps.current, "RightParen", "Expected ')' after parameters."),
         LAMBDA rp :
    PTry(consume(toks, rp.current, "LeftBrace", "Expected '{' before function body."),
         LAMBDA lb :
    PTry(block(toks, lb.current),
         LAMBDA body :
    POk([parameters |-> ps.node, body |-> body.node], body.current)))))

\* The optional `= expression` of var_declaration.
initializer(toks, cur) ==
    IF match_token(toks, cur, {"Equal"})
    THEN PTry(expression(toks, cur + 1), LAMBDA r : POk(Some(r.node), r.current))
    ELSE POk(None, cur)

var_declaration(toks, cur) ==
    IF peek(toks, cur).token_type # "Identifier"
    THEN PErr(error(toks, cur, "Expected variable name."))
    ELSE PTry(initializer(toks, advance(toks, cur)),
              LAMBDA init :
         PTry(consume(toks, init.current, "Semicolon",
                      "Expected ';' after variable declaration."),
              LAMBDA semi :
         POk(StmtDeclaration(peek(toks, cur).text, init.node), semi.current)))

function_declaration(toks, cur) ==
    IF peek(toks, cur).token_type # "Identifier"
    THEN PErr(error(toks, cur, "Expected function name."))
    ELSE PTry(consume(toks, advance(toks, cur), "LeftParen",
                      "Expected '(' after function name."),
              LAMBDA lp :
         PTry(function_rest(toks, lp.current),
              LAMBDA f :
         POk(StmtFunction(peek(toks, cur).text, f.node.parameters, f.node.body),
             f.current)))

declaration(toks, cur) ==
    IF match_token(toks, cur, {"Var", "Let", "Const"}) THEN var_declaration(toks, cur + 1)
    ELSE IF match_token(toks, cur, {"Function"}) THEN function_declaration(toks, cur + 1)
    ELSE statement(toks, cur)

\* The optional `else statement` of if_statement.
else_branch_of(toks, cur) ==
    IF match_token(toks, cur, {"Else"})
    THEN PTry(statement(toks, cur + 1), LAMBDA r : POk(Some(r.node), r.current))
    ELSE POk(None, cur)

if_statement(toks, cur) ==
    PTry(consume(toks, cur, "LeftParen", "Expected '(' after 'if'."),
         LAMBDA lp :
    PTry(expression(toks, lp.current),
         LAMBDA condition :
    PTry(consume(toks, condition.current, "RightParen", "Expected ')' after if condition."),
         LAMBDA rp :
    PTry(statement(toks, rp.current),
         LAMBDA then_branch :
    PTry(else_branch_of(toks, then_branch.current),
         LAMBDA else_branch :
    POk(StmtIf(condition.node, then_branch.node, else_branch.node),
        else_branch.current))))))

while_statement(toks, cur) ==
    PTry(consume(toks, cur, "LeftParen", "Expected '(' after 'while'."),
         LAMBDA lp :
    PTry(expression(toks, lp.current),
         LAMBDA condition :
    PTry(consume(toks, condition.current, "RightParen",
                 "Expected ')' after while condition."),
         LAMBDA rp :
    PTry(statement(toks, rp.current),
         LAMBDA body :
    POk(StmtWhile(condition.node, body.node), body.current)))))

return_statement(toks, cur) ==
    PTry(IF ~check(toks, cur, "Semicolon")
         THEN PTry(expression(toks, cur), LAMBDA r : POk(Some(r.node), r.current))
         ELSE POk(None, cur),
         LAMBDA value :
    PTry(consume(toks, value.current, "Semicolon", "Expected ';' after return value."),
         LAMBDA semi :
    POk(StmtReturn(value.node), semi.current)))

expression_statement(toks, cur) ==
    PTry(expression(toks, cur),
         LAMBDA expr :
    PTry(consume(toks, expr.current, "Semicolon", "Expected ';' after expression."),
         LAMBDA semi :
    POk(StmtExpression(expr.node), semi.current)))

statement(toks, cur) ==
    IF match_token(toks, cur, {"If"}) THEN if_statement(toks, cur + 1)
    ELSE IF match_token(toks, cur, {"While"}) THEN while_statement(toks, cur + 1)
    ELSE IF match_token(toks, cur, {"Return"}) THEN return_statement(toks, cur + 1)
    ELSE IF match_token(toks, cur, {"LeftBrace"}) THEN block(toks, cur + 1)
    ELSE expression_statement(toks, cur)

block_loop(toks, cur, statements) ==
    IF ~check(toks, cur, "RightBrace") /\ ~is_at_end(toks, cur)
    THEN PTry(declaration(toks, cur),
              LAMBDA d : block_loop(toks, d.current, Append(statements, d.node)))
    ELSE POk(statements, cur)

block(toks, cur) ==
    PTry(block_loop(toks, cur, <<>>),
         LAMBDA stmts :
    PTry(consume(toks, stmts.current, "RightBrace", "Expected '}' after block."),
         LAMBDA rb :
    POk(StmtBlock(stmts.node), rb.current)))

expression(toks, cur) == assignment(toks, cur)

assignment(toks, cur) ==
    PTry(or(toks, cur),
         LAMBDA expr :
    IF match_token(toks, expr.current, {"Equal"})
    THEN PTry(assignment(toks, expr.current + 1),
              LAMBDA value :
         IF expr.node.e = "Variable"
         THEN POk(ExprAssign(expr.node.name, value.node), value.current)
         ELSE PErr(error(toks, value.current, "Invalid assignment target.")))
    ELSE expr)

or_loop(toks, cur, expr) ==
    IF match_token(toks, cur, OrOps)
    THEN PTry(and(toks, cur + 1),
              LAMBDA right :
         or_loop(toks, right.current, FoldBinary(expr, "Or", right.node)))
    ELSE POk(expr, cur)

or(toks, cur) ==
    PTry(and(toks, cur), LAMBDA expr : or_loop(toks, expr.current, expr.node))

and_loop(toks, cur, expr) ==
    IF match_token(toks, cur, AndOps)
    THEN PTry(equality(toks, cur + 1),
              LAMBDA right :
         and_loop(toks, right.current, FoldBinary(expr, "And", right.node)))
    ELSE POk(expr, cur)

and(toks, cur) ==
    PTry(equality(toks, cur), LAMBDA expr : and_loop(toks, expr.current, expr.node))

equality_loop(toks, cur, expr) ==
    IF match_token(toks, cur, EqualityOps)
    THEN PTry(comparison(toks, cur + 1),
              LAMBDA right :
         equality_loop(toks, right.current,
                       FoldBinary(expr, BinaryOpOf(previous(toks, cur + 1).token_type),
                                  right.node)))
    ELSE POk(expr, cur)

equality(toks, cur) ==
    PTry(comparison(toks, cur), LAMBDA expr : equality_loop(toks, expr.current, expr.node))

comparison_loop(toks, cur, expr) ==
    IF match_token(toks, cur, ComparisonOps)
    THEN PTry(term(toks, cur + 1),
              LAMBDA right :
         comparison_loop(toks, right.current,
                         FoldBinary(expr, BinaryOpOf(previous(toks, cur + 1).token_type),
                                    right.node)))
    ELSE POk(expr, cur)

comparison(toks, cur) ==
    PTry(term(toks, cur), LAMBDA expr : comparison_loop(toks, expr.current, expr.node))

term_loop(toks, cur, expr) ==
    IF match_token(toks, cur, TermOps)
    THEN PTry(factor(toks, cur + 1),
              LAMBDA right :
         term_loop(toks, right.current,
                   FoldBinary(expr, BinaryOpOf(previous(toks, cur + 1).token_type),
                              right.node)))
    ELSE POk(expr, cur)

term(toks, cur) ==
    PTry(factor(toks, cur), LAMBDA expr : term_loop(toks, expr.current, expr.node))

\* A factor loop that parses its right operand one level too low.
factor_loop_right_term(toks, cur, expr) ==
    IF match_token(toks, cur, FactorOps)
    THEN PTry(term(toks, cur + 1),
              LAMBDA right :
         factor_loop(toks, right.current,
                     FoldBinary(expr, BinaryOpOf(previous(toks, cur + 1).token_type),
                                right.node)))
    ELSE POk(expr, cur)

factor_loop(toks, cur, expr) ==
    IF match_token(toks, cur, FactorOps)
    THEN PTry(unary(toks, cur + 1),
              LAMBDA right :
         factor_loop(toks, right.current,
                     FoldBinary(expr, BinaryOpOf(previous(toks, cur + 1).token_type),
                                right.node)))
    ELSE POk(expr, cur)

factor(toks, cur) ==
    PTry(unary(toks, cur), LAMBDA expr : factor_loop(toks, expr.current, expr.node))

unary(toks, cur) ==
    IF match_token(toks, cur, UnaryOps)
    THEN PTry(unary(toks, cur + 1),
              LAMBDA right :
         POk(ExprUnary(UnaryOpOf(previous(toks, cur + 1).token_type), right.node),
             right.current))
    ELSE call_expr(toks, cur)

call_loop(toks, cur, expr) ==
    IF match_token(toks, cur, {"LeftParen"})
    THEN PTry(finish_call(toks, cur + 1, expr),
              LAMBDA c : call_loop(toks, c.current, c.node))
    ELSE POk(expr, cur)

\* Parser::call
call_expr(toks, cur) ==
    PTry(primary(toks, cur), LAMBDA expr : call_loop(toks, expr.current, expr.node))

arguments_loop(toks, cur, arguments) ==
    IF Len(arguments) >= MaxParams
    THEN PErr(error(toks, cur, "Cannot have more than 255 arguments."))
    ELSE PTry(expression(toks, cur),
              LAMBDA a :
         IF match_token(toks, a.current, {"Comma"})
         THEN arguments_loop(toks, a.current + 1, Append(arguments, a.node))
         ELSE POk(Append(arguments, a.node), a.current))

finish_call(toks, cur, callee) ==
    PTry(IF ~check(toks, cur, "RightParen") THEN arguments_loop(toks, cur, <<>>)
         ELSE POk(<<>>, cur),
         LAMBDA arguments :
    PTry(consume(toks, arguments.current, "RightParen", "Expected ')' after arguments."),
         LAMBDA rp :
    POk(ExprCall(callee, arguments.node), rp.current)))

primary(toks, cur) ==
    IF match_token(toks, cur, {"False"}) THEN POk(ExprBoolean(FALSE), cur + 1)
    ELSE IF match_token(toks, cur, {"True"}) THEN POk(ExprBoolean(TRUE), cur + 1)
    ELSE IF match_token(toks, cur, {"Null"}) THEN POk(ExprNull, cur + 1)
    ELSE IF match_token(toks, cur, {"Number"})
    THEN POk(ExprNumber(previous(toks, cur + 1).number), cur + 1)
    ELSE IF match_token(toks, cur, {"String"})
    THEN POk(ExprString(previous(toks, cur + 1).text), cur + 1)
    ELSE IF match_token(toks, cur, {"Identifier"})
    THEN POk(ExprVariable(previous(toks, cur + 1).text), cur + 1)
    ELSE IF match_token(toks, cur, {"LeftParen"})
    THEN PTry(expression(toks, cur + 1),
              LAMBDA expr :
         PTry(consume(toks, expr.current, "RightParen", "Expected ')' after expression."),
              LAMBDA rp :
         POk(expr.node, rp.current)))
    ELSE IF match_token(toks, cur, {"Function"})
    THEN PTry(consume(toks, cur + 1, "LeftParen", "Expected '(' after 'function'."),
              LAMBDA lp :
         PTry(function_rest(toks, lp.current),
              LAMBDA f :
         POk(ExprFunction(f.node.parameters, f.node.body), f.current)))
    ELSE PErr(error(toks, cur, "Expected expression."))

RECURSIVE parse_loop(_, _, _)
parse_loop(toks, cur, statements) ==
    IF ~is_at_end(toks, cur)
    THEN PTry(declaration(toks, cur),
              LAMBDA d : parse_loop(toks, d.current, Append(statements, d.node)))
    ELSE POk(statements, cur)

\* Parser::new(tokens).parse()
parse(toks) == parse_loop(toks, 0, <<>>)

\* ------------------------------------------------------------------------
\* Values (interpreter.rs Value).  A Number is carried as an exact fraction
\* num/den with den > 0 in lowest terms; den = 0 carries the non-finite
\* doubles: num = 1 is +infinity, num = -1 is -infinity, num = 0 is NaN.
\* ------------------------------------------------------------------------
Abs(n) == IF n < 0 THEN -n ELSE n

RECURSIVE Gcd(_, _)
Gcd(a, b) == IF b = 0 THEN a ELSE Gcd(b, a % b)

Sign(n) == IF n > 0 THEN 1 ELSE IF n < 0 THEN -1 ELSE 0

\* The Number num/den for den # 0.
Fraction(num, den) ==
    LET g == Gcd(Abs(num), Abs(den))
    IN [kind |-> "Number", num |-> Sign(den) * (num \div g), den |-> Abs(den) \div g]

Number(n) == [kind |-> "Number", num |-> n, den |-> 1]

Infinity == [kind |-> "Number", num |-> 1, den |-> 0]

NegInfinity == [kind |-> "Number", num |-> -1, den |-> 0]

NaN == [kind |-> "Number", num |-> 0, den |-> 0]

\* The f64 -0.0: the one finite Number with a negative denominator.
NegZero == [kind |-> "Number", num |-> 0, den |-> -1]

is_nan(a) == a.den = 0 /\ a.num = 0

IsFinite(a) == a.den # 0

\* `n == 0.0`, true of 0.0 and of -0.0.
IsZero(a) == a.den # 0 /\ a.num = 0

\* f64::is_sign_negative, for a Number that is not NaN.
SignBit(a) == a.num < 0 \/ (a.num = 0 /\ a.den < 0)

\* The zero of the given sign.
Zero(negative) == IF negative THEN NegZero ELSE [kind |-> "Number", num |-> 0, den |-> 1]

\* The denominator of a finite Number.
Den(a) == Abs(a.den)

String(s) == [kind |-> "String", s |-> s]

Boolean(b) == [kind |-> "Boolean", b |-> b]

Null == [kind |-> "Null"]

Undefined == [kind |-> "Undefined"]

\* Value::Function(Rc<JsFunction>): the JsFunction holds its closure, an
\* Environment, by value.
Function(parameters, body, closure) ==
    [kind |-> "Function", parameters |-> parameters, body |-> body, closure |-> closure]

NativeFunction(name) == [kind |-> "NativeFunction", name |-> name]

\* f64 arithmetic on the fractions (exact; IEEE rules for the non-finite).
NumAdd(a, b) ==
    IF is_nan(a) \/ is_nan(b) THEN NaN
    ELSE IF ~IsFinite(a) /\ ~IsFinite(b) THEN (IF a.num = b.num THEN a ELSE NaN)
    ELSE IF ~IsFinite(a) THEN a
    ELSE IF ~IsFinite(b) THEN b
    ELSE IF IsZero(a) /\ IsZero(b) THEN Zero(SignBit(a) /\ SignBit(b))
    ELSE Fraction(a.num * Den(b) + b.num * Den(a), Den(a) * Den(b))

NumNeg(a) == IF IsZero(a) THEN Zero(~SignBit(a)) ELSE [a EXCEPT !.num = -a.num]

NumSub(a, b) == NumAdd(a, NumNeg(b))

NumMul(a, b) ==
    IF is_nan(a) \/ is_nan(b) THEN NaN
    ELSE IF ~IsFinite(a) \/ ~IsFinite(b)
    THEN (IF a.num = 0 \/ b.num = 0 THEN NaN
          ELSE IF Sign(a.num) = Sign(b.num) THEN Infinity ELSE NegInfinity)
    ELSE IF IsZero(a) \/ IsZero(b) THEN Zero(SignBit(a) # SignBit(b))
    ELSE Fraction(a.num * b.num, Den(a) * Den(b))

\* a / b for a divisor that is not zero.
NumDiv(a, b) ==
    IF is_nan(a) \/ is_nan(b) THEN NaN
    ELSE IF ~IsFinite(b)
    THEN (IF ~IsFinite(a) THEN NaN ELSE Zero(SignBit(a) # SignBit(b)))
    ELSE IF ~IsFinite(a)
    THEN (IF Sign(a.num) = Sign(b.num) THEN Infinity ELSE NegInfinity)
    ELSE IF IsZero(a) THEN Zero(SignBit(a) # SignBit(b))
    ELSE Fraction(a.num * Den(b), Den(a) * b.num)

NumEq(a, b) == ~is_nan(a) /\ ~is_nan(b) /\ (a = b \/ (IsZero(a) /\ IsZero(b)))

NumLess(a, b) ==
    IF is_nan(a) \/ is_nan(b) THEN FALSE
    ELSE IF ~IsFinite(a) /\ ~IsFinite(b) THEN a.num < b.num
    ELSE a.num * Den(b) < b.num * Den(a)

\* Display of an f64 (`write!(f, "{}", n)`): no trailing ".0".
Digit(d) == CASE d = 0 -> "0" [] d = 1 -> "1" [] d = 2 -> "2" [] d = 3 -> "3"
              [] d = 4 -> "4" [] d = 5 -> "5" [] d = 6 -> "6" [] d = 7 -> "7"
              [] d = 8 -> "8" [] d = 9 -> "9"

RECURSIVE NatToString(_)
NatToString(n) == IF n < 10 THEN Digit(n) ELSE NatToString(n \div 10) \o Digit(n % 10)

\* The decimal digits of rem/den < 1 (a terminating expansion).
RECURSIVE FractionDigits(_, _)
FractionDigits(rem, den) ==
    IF rem = 0 THEN ""
    ELSE Digit((rem * 10) \div den) \o FractionDigits((rem * 10) % den, den)

NumberToString(a) ==
    IF is_nan(a) THEN "NaN"
    ELSE IF ~IsFinite(a) THEN (IF a.num > 0 THEN "inf" ELSE "-inf")
    ELSE LET whole == Abs(a.num) \div Den(a)
             rem == Abs(a.num) % Den(a)
         IN (IF SignBit(a) THEN "-" ELSE "") \o NatToString(whole)
            \o (IF rem = 0 THEN "" ELSE "." \o FractionDigits(rem, Den(a)))

\* impl fmt::Display for Value
Display(v) ==
    CASE v.kind = "Number" -> NumberToString(v)
      [] v.kind = "String" -> v.s
      [] v.kind = "Boolean" -> (IF v.b THEN "true" ELSE "false")
      [] v.kind = "Null" -> "null"
      [] v.kind = "Function" -> "[Function]"
      [] v.kind = "NativeFunction" -> "[Native Function]"
      [] v.kind = "Undefined" -> "undefined"

\* impl fmt::Debug for Value
Debug(v) == IF v.kind = "String" THEN "\"" \o v.s \o "\"" ELSE Display(v)

ReferenceError(message) == [kind |-> "ReferenceError", message |-> message]

TypeError(message) == [kind |-> "TypeError", message |-> message]

\* ------------------------------------------------------------------------
\* Environment (interpreter.rs).  An Environment is a record of its values
\* map and its enclosing link; an Rc<RefCell<Environment>> is the index of a
\* cell of `heap` (0 is None).
\* ------------------------------------------------------------------------
EmptyMap == [n \in {} |-> Undefined]

new_environment == [values |-> EmptyMap, enclosing |-> 0]

with_enclosing(enclosing) == [values |-> EmptyMap, enclosing |-> enclosing]

insert(values, name, value) ==
    [n \in DOMAIN values \cup {name} |-> IF n = name THEN value ELSE values[n]]

define(env, name, value) == [env EXCEPT !.values = insert(env.values, name, value)]

RECURSIVE get(_, _, _)
get(heap, env, name) ==
    IF name \in DOMAIN env.values THEN [err |-> FALSE, value |-> env.values[name]]
    ELSE IF env.enclosing # 0 THEN get(heap, heap[env.enclosing], name)
    ELSE [err |-> TRUE, error |-> ReferenceError("'" \o name \o "' is not defined")]

RECURSIVE assign(_, _, _, _)

\* An assignment that always writes the cell it is given.
assign_innermost(heap, at, name, value) ==
    [err |-> FALSE, heap |-> [heap EXCEPT ![at] = define(heap[at], name, value)]]

\* assign on the cell `at`: the heap after the assignment, or the error.
assign(heap, at, name, value) ==
    IF name \in DOMAIN heap[at].values
    THEN [err |-> FALSE, heap |-> [heap EXCEPT ![at] = define(heap[at], name, value)]]
    ELSE IF heap[at].enclosing # 0 THEN assign(heap, heap[at].enclosing, name, value)
    ELSE [err |-> TRUE, error |-> ReferenceError("'" \o name \o "' is not defined")]

\* ------------------------------------------------------------------------
\* Interpreter (interpreter.rs).  The interpreter state `st` is a record of
\*   heap         the Rc<RefCell<Environment>> cells allocated so far
\*   environment  Interpreter.environment (a cell index)
\*   globals      Interpreter.globals (a cell index)
\*   calls        history: the callee expression of every call evaluated
\*   iters        history: the number of while-body executions so far
\*   depth        the number of user-function calls in progress
\*   last_expression  history: the value of the last expression statement
\*                executed outside every function body (Undefined if none)
\* evaluate returns [tag |-> "Ok", value, st]; execute returns an
\* ExecutionResult [tag |-> "Value" | "Return" | "None", value, st]; both
\* return [tag |-> "Err", error, st] for Err(e), and [tag |-> "Diverge", st]
\* when the run is still going on at the bounds MaxIter / MaxDepth.
\* ------------------------------------------------------------------------
MaxIter == 5

MaxDepth == 4

Ok(value, st) == [tag |-> "Ok", value |-> value, st |-> st]

Err(e, st) == [tag |-> "Err", error |-> e, st |-> st]

Diverge(st) == [tag |-> "Diverge", st |-> st]

ResValue(value, st) == [tag |-> "Value", value |-> value, st |-> st]

ResReturn(value, st) == [tag |-> "Return", value |-> value, st |-> st]

ResNone(st) == [tag |-> "None", value |-> Undefined, st |-> st]

\* The `?` operator: an Err (or a run that does not come back) propagates.
Aborts(r) == r.tag \in {"Err", "Diverge"}

\* Rc::new(RefCell::new(env)): the heap with the new cell; its index is the
\* new length.
Alloc(heap, env) == Append(heap, env)

\* A truthiness for which every number and every string is truthy.
is_truthy_lax(value) ==
    CASE value.kind = "Boolean" -> value.b
      [] value.kind = "Null" -> FALSE
      [] value.kind = "Undefined" -> FALSE
      [] OTHER -> TRUE

is_truthy(value) ==
    CASE value.kind = "Boolean" -> value.b
      [] value.kind = "Null" -> FALSE
      [] value.kind = "Undefined" -> FALSE
      [] value.kind = "Number" -> ~IsZero(value) /\ ~is_nan(value)
      [] value.kind = "String" -> value.s # ""
      [] OTHER -> TRUE

is_equal(a, b) ==
    CASE a.kind = "Number" /\ b.kind = "Number" -> NumEq(a, b)
      [] a.kind = "String" /\ b.kind = "String" -> a.s = b.s
      [] a.kind = "Boolean" /\ b.kind = "Boolean" -> a.b = b.b
      [] a.kind = "Null" /\ b.kind = "Null" -> TRUE
      [] a.kind = "Undefined" /\ b.kind = "Undefined" -> TRUE
      [] OTHER -> FALSE

add(a, b, st) ==
    CASE a.kind = "Number" /\ b.kind = "Number" -> Ok(NumAdd(a, b), st)
      [] a.kind = "String" /\ b.kind = "String" -> Ok(String(a.s \o b.s), st)
      [] a.kind = "String" /\ b.kind # "String" -> Ok(String(a.s \o Display(b)), st)
      [] a.kind # "String" /\ b.kind = "String" -> Ok(String(Display(a) \o b.s), st)
      [] OTHER -> Err(TypeError("Cannot add " \o Debug(a) \o " and " \o Debug(b)), st)

\* A subtraction that turns operands that are not numbers into NaN.
subtract_lenient(a, b, st) ==
    IF a.kind = "Number" /\ b.kind = "Number" THEN Ok(NumSub(a, b), st) ELSE Ok(NaN, st)

subtract(a, b, st) ==
    IF a.kind = "Number" /\ b.kind = "Number" THEN Ok(NumSub(a, b), st)
    ELSE Err(TypeError("Cannot subtract " \o Debug(b) \o " from " \o Debug(a)), st)

multiply(a, b, st) ==
    IF a.kind = "Number" /\ b.kind = "Number" THEN Ok(NumMul(a, b), st)
    ELSE Err(TypeError("Cannot multiply " \o Debug(a) \o " and " \o Debug(b)), st)

\* The division of IEEE 754: the sign of a zero divisor counts, 0 / 0 is NaN.
divide_ieee(a, b, st) ==
    IF a.kind = "Number" /\ b.kind = "Number"
    THEN (IF IsZero(b)
          THEN Ok(IF is_nan(a) \/ IsZero(a) THEN NaN
                  ELSE IF SignBit(a) # SignBit(b) THEN NegInfinity ELSE Infinity, st)
          ELSE Ok(NumDiv(a, b), st))
    ELSE Err(TypeError("Cannot divide " \o Debug(a) \o " by " \o Debug(b)), st)

divide(a, b, st) ==
    IF a.kind = "Number" /\ b.kind = "Number"
    THEN (IF IsZero(b) THEN Ok(Infinity, st) ELSE Ok(NumDiv(a, b), st))
    ELSE Err(TypeError("Cannot divide " \o Debug(a) \o " by " \o Debug(b)), st)

negate(value, st) ==
    IF value.kind = "Number" THEN Ok(NumNeg(value), st)
    ELSE Err(TypeError("Cannot negate " \o Debug(value)), st)

less_than(a, b, st) ==
    IF a.kind = "Number" /\ b.kind = "Number" THEN Ok(Boolean(NumLess(a, b)), st)
    ELSE Err(TypeError("Cannot compare " \o Debug(a) \o " < " \o Debug(b)), st)

less_equal(a, b, st) ==
    IF a.kind = "Number" /\ b.kind = "Number"
    THEN Ok(Boolean(NumLess(a, b) \/ NumEq(a, b)), st)
    ELSE Err(TypeError("Cannot compare " \o Debug(a) \o " <= " \o Debug(b)), st)

greater_than(a, b, st) ==
    IF a.kind = "Number" /\ b.kind = "Number" THEN Ok(Boolean(NumLess(b, a)), st)
    ELSE Err(TypeError("Cannot compare " \o Debug(a) \o " > " \o Debug(b)), st)

greater_equal(a, b, st) ==
    IF a.kind = "Number" /\ b.kind = "Number"
    THEN Ok(Boolean(NumLess(b, a) \/ NumEq(a, b)), st)
    ELSE Err(TypeError("Cannot compare " \o Debug(a) \o " >= " \o Debug(b)), st)

\* A capture that keeps the bindings but loses the enclosing link.
capture_without_enclosing(st) == [st.heap[st.environment] EXCEPT !.enclosing = 0]

\* `closure: self.environment.borrow().clone()`: the Environment a function
\* value is built with, a clone of the current cell's record (its values
\* map by value, its enclosing link shared).
capture(st) == st.heap[st.environment]

\* A call frame enclosed by the caller's current frame (dynamic scoping).
call_frame_in_caller(function, st) ==
    [heap |-> st.heap, environment |-> with_enclosing(st.environment)]

\* `Environment::with_enclosing(Rc::new(RefCell::new(function.closure.clone())))`
\* in call: a new cell holding a clone of the closure, and the call frame
\* that encloses it.  Returns the heap with the new cell and the frame.
call_frame(function, st) ==
    LET heap1 == Alloc(st.heap, function.closure)
    IN [heap |-> heap1, environment |-> with_enclosing(Len(heap1))]

\* `for (i, param) in function.parameters.iter().enumerate()`
RECURSIVE bind_parameters(_, _, _, _)
bind_parameters(env, parameters, arguments, i) ==
    IF i > Len(parameters) THEN env
    ELSE bind_parameters(
             define(env, parameters[i],
                    IF i <= Len(arguments) THEN arguments[i] ELSE Undefined),
             parameters, arguments, i + 1)

\* The `?` operator on the result of execute, evaluate or call: an Err (or a
\* run that does not come back) returns at once, anything else goes on with
\* the rest `K` of the function.
Try(r, K(_)) == IF Aborts(r) THEN r ELSE K(r)

RECURSIVE execute(_, _), evaluate(_, _), call(_, _, _)
RECURSIVE block_statements(_, _, _, _), while_loop(_, _, _, _)
RECURSIVE evaluate_arguments(_, _, _, _)

\* A statement loop that does not stop at a return.
block_statements_through(statements, i, result, st) ==
    IF i > Len(statements) THEN [result EXCEPT !.st = st]
    ELSE Try(execute(statements[i], st),
             LAMBDA r : block_statements(statements, i + 1, r, r.st))

\* The `for statement in statements` loop of Stmt::Block; `result` is the
\* ExecutionResult of the last statement executed.
block_statements(statements, i, result, st) ==
    IF i > Len(statements) THEN [result EXCEPT !.st = st]
    ELSE Try(execute(statements[i], st),
             LAMBDA r : IF r.tag = "Return" THEN r
                        ELSE block_statements(statements, i + 1, r, r.st))

\* A loop that runs its body at most once.
while_loop_once(condition_value, body, result, st) ==
    IF is_truthy(condition_value)
    THEN Try(execute(body, [st EXCEPT !.iters = @ + 1]), LAMBDA r : r)
    ELSE [result EXCEPT !.st = st]

\* The `while self.is_truthy(&condition_value)` loop of Stmt::While.
while_loop(condition_value, body, result, st) ==
    IF is_truthy(condition_value)
    THEN IF st.iters >= MaxIter THEN Diverge(st)
         ELSE Try(execute(body, [st EXCEPT !.iters = @ + 1]),
                  LAMBDA r : IF r.tag = "Return" THEN r
                             ELSE while_loop(condition_value, body, r, r.st))
    ELSE [result EXCEPT !.st = st]

\* `self.environment = Rc::new(RefCell::new(Environment::with_enclosing(previous_env)))`
\* on entry to Stmt::Block.
enter_block(st) ==
    [st EXCEPT !.heap = Alloc(st.heap, with_enclosing(st.environment)),
               !.environment = Len(st.heap) + 1]

\* `self.environment = self.environment.borrow().enclosing.unwrap()`-style
\* restoration at the end of Stmt::Block.
leave_block(r) ==
    [r EXCEPT !.st.environment = r.st.heap[r.st.environment].enclosing]

\* A declaration that binds in the global frame.
declare_global(name, value, st) ==
    [st EXCEPT !.heap[st.globals] = define(@, name, value)]

\* `self.environment.borrow_mut().define(name.clone(), value)` of
\* Stmt::Declaration: the binding goes into the current (innermost) frame.
declare(name, value, st) ==
    [st EXCEPT !.heap[st.environment] = define(@, name, value)]

\* An optional expression of a statement: its value, or Undefined.
evaluate_optional(expr, st) ==
    IF expr.some THEN evaluate(expr.v, st) ELSE Ok(Undefined, st)

execute(stmt, st) ==
    CASE stmt.s = "Expression" ->
           Try(evaluate(stmt.expr, st),
               LAMBDA r : ResValue(r.value,
                                   IF r.st.depth = 0
                                   THEN [r.st EXCEPT !.last_expression = r.value]
                                   ELSE r.st))
      [] stmt.s = "Declaration" ->
           Try(evaluate_optional(stmt.initializer, st),
               LAMBDA r : ResNone(declare(stmt.name, r.value, r.st)))
      [] stmt.s = "Block" ->
           Try(block_statements(stmt.statements, 1, ResNone(st), enter_block(st)),
               leave_block)
      [] stmt.s = "If" ->
           Try(evaluate(stmt.condition, st),
               LAMBDA c : IF is_truthy(c.value) THEN execute(stmt.then_branch, c.st)
                          ELSE IF stmt.else_branch.some
                          THEN execute(stmt.else_branch.v, c.st)
                          ELSE ResNone(c.st))
      [] stmt.s = "While" ->
           Try(evaluate(stmt.condition, st),
               LAMBDA c : while_loop(c.value, stmt.body, ResNone(c.st), c.st))
      [] stmt.s = "Return" ->
           Try(evaluate_optional(stmt.value, st),
               LAMBDA r : ResReturn(r.value, r.st))
      [] stmt.s = "Function" ->
           ResNone([st EXCEPT !.heap[st.environment] =
                       define(@, stmt.name,
                              Function(stmt.parameters, stmt.body, capture(st)))])

\* `for argument in arguments { arg_values.push(self.evaluate(argument)?) }`
evaluate_arguments(arguments, i, arg_values, st) ==
    IF i > Len(arguments) THEN Ok(arg_values, st)
    ELSE Try(evaluate(arguments[i], st),
             LAMBDA r : evaluate_arguments(arguments, i + 1,
                                           Append(arg_values, r.value), r.st))

\* `match operator { ... }` of Expr::Binary, on the two operand values.
binary(op, a, b, st) ==
    CASE op = "Add" -> add(a, b, st)
      [] op = "Subtract" -> subtract(a, b, st)
      [] op = "Multiply" -> multiply(a, b, st)
      [] op = "Divide" -> divide(a, b, st)
      [] op = "Equal" -> Ok(Boolean(is_equal(a, b)), st)
      [] op = "NotEqual" -> Ok(Boolean(~is_equal(a, b)), st)
      [] op = "Less" -> less_than(a, b, st)
      [] op = "LessEqual" -> less_equal(a, b, st)
      [] op = "Greater" -> greater_than(a, b, st)
      [] op = "GreaterEqual" -> greater_equal(a, b, st)
      [] op = "And" -> IF ~is_truthy(a) THEN Ok(a, st) ELSE Ok(b, st)
      [] op = "Or" -> IF is_truthy(a) THEN Ok(a, st) ELSE Ok(b, st)

\* Expr::Variable: `self.environment.borrow().get(name)`.
lookup(g, st) == IF g.err THEN Err(g.error, st) ELSE Ok(g.value, st)

\* Expr::Assign: `self.environment.borrow_mut().assign(name, value.clone())?`.
store(a, value, st) ==
    IF a.err THEN Err(a.error, st) ELSE Ok(value, [st EXCEPT !.heap = a.heap])

evaluate(expr, st) ==
    CASE expr.e = "Number" -> Ok(Fraction(expr.value.num, expr.value.den), st)
      [] expr.e = "String" -> Ok(String(expr.value), st)
      [] expr.e = "Boolean" -> Ok(Boolean(expr.value), st)
      [] expr.e = "Null" -> Ok(Null, st)
      [] expr.e = "Variable" ->
           lookup(get(st.heap, st.heap[st.environment], expr.name), st)
      [] expr.e = "Binary" ->
           Try(evaluate(expr.left, st),
               LAMBDA l :
           Try(evaluate(expr.right, l.st),
               LAMBDA r : binary(expr.operator, l.value, r.value, r.st)))
      [] expr.e = "Unary" ->
           Try(evaluate(expr.right, st),
               LAMBDA r : IF expr.operator = "Negate" THEN negate(r.value, r.st)
                          ELSE Ok(Boolean(~is_truthy(r.value)), r.st))
      [] expr.e = "Conditional" ->
           Try(evaluate(expr.condition, st),
               LAMBDA c : IF is_truthy(c.value) THEN evaluate(expr.then_branch, c.st)
                          ELSE IF expr.else_branch.some
                          THEN evaluate(expr.else_branch.v, c.st)
                          ELSE Ok(Undefined, c.st))
      [] expr.e = "Assign" ->
           Try(evaluate(expr.value, st),
               LAMBDA r : store(assign(r.st.heap, r.st.environment, expr.name, r.value),
                                r.value, r.st))
      [] expr.e = "Call" ->
           Try(evaluate(expr.callee, st),
               LAMBDA c :
           Try(evaluate_arguments(expr.arguments, 1, <<>>, c.st),
               LAMBDA args : call(c.value, args.value,
                                  [args.st EXCEPT !.calls = Append(@, expr.callee)])))
      [] expr.e = "Function" ->
           Ok(Function(expr.parameters, expr.body, capture(st)), st)

\* The state in which call executes the body: the call frame, with the
\* parameters bound, is the current environment.
enter_call(frame, function, arguments, st) ==
    [st EXCEPT !.heap = Alloc(frame.heap,
                              bind_parameters(frame.environment, function.parameters,
                                              arguments, 1)),
               !.environment = Len(frame.heap) + 1,
               !.depth = @ + 1]

call(callee, arguments, st) ==
    CASE callee.kind = "Function" ->
           IF st.depth >= MaxDepth THEN Diverge(st)
           ELSE Try(execute(callee.body,
                            enter_call(call_frame(callee, st), callee, arguments, st)),
                    LAMBDA r : Ok(r.value, [r.st EXCEPT !.environment = st.environment,
                                                        !.depth = @ - 1]))
      [] callee.kind = "NativeFunction" -> Ok(Undefined, st)
      [] OTHER -> Err(TypeError(Debug(callee) \o " is not a function"), st)

\* Interpreter::new(): the globals cell holds the one native function.
InterpreterNew ==
    [heap |-> <<define(new_environment, "console.log", NativeFunction("console.log"))>>,
     environment |-> 1, globals |-> 1, calls |-> <<>>, iters |-> 0, depth |-> 0,
     last_expression |-> Undefined]

\* ------------------------------------------------------------------------
\* The outcome of execute_js (main.rs): still running, Err(e), or the
\* Ok(value) of interpret.
\* ------------------------------------------------------------------------
Running == [status |-> "running"]

Failed(e) == [status |-> "error", error |-> e]

\* Ok(value) of interpret; `by` tells whether a return escaped to the top
\* level ("return") or the statement list ran to its end ("end").
Finished(value, by) == [status |-> "ok", value |-> value, by |-> by]

\* ------------------------------------------------------------------------
\* Lexer (lexer.rs).  A source is a sequence of characters, each a string of
\* length one.  The lexer state `lx` is a record of
\*   current  the number of characters consumed (Lexer.current)
\*   line     Lexer.line
\*   column   Lexer.column
\*   tokens   Lexer.tokens
\*   error    None, or Some(e) once a scanning function has returned Err(e)
\* The character iterator Lexer.source is the pair of the source and
\* `current`: its next character is src[lx.current + 1].
\* ------------------------------------------------------------------------
Digits == {"0", "1", "2", "3", "4", "5", "6", "7", "8", "9"}

Letters ==
    {"a", "b", "c", "d", "e", "f", "g", "h", "i", "j", "k", "l", "m",
     "n", "o", "p", "q", "r", "s", "t", "u", "v", "w", "x", "y", "z",
     "A", "B", "C", "D", "E", "F", "G", "H", "I", "J", "K", "L", "M",
     "N", "O", "P", "Q", "R", "S", "T", "U", "V", "W", "X", "Y", "Z"}

is_digit(c) == c \in Digits

is_alpha(c) == c \in Letters \/ c = "_"

is_alphanumeric(c) == is_alpha(c) \/ is_digit(c)

LexerError(position, message) ==
    [kind |-> "LexerError", position |-> position, message |-> message]

\* Lexer::new(source)
LexerNew == [current |-> 0, line |-> 1, column |-> 1, tokens |-> <<>>, error |-> None]

\* `return Err(e)` from a scanning function.
LexFail(lx, e) == [lx EXCEPT !.error = Some(e)]

\* `self.source.peek()` is Some(c) for a character c with this property.
peek_is(src, lx, P(_)) == lx.current < Len(src) /\ P(src[lx.current + 1])

\* Lexer::advance, for a source that has a next character.
lexer_advance(lx) == [lx EXCEPT !.current = @ + 1, !.column = @ + 1]

\* String::push over the characters collected so far.
RECURSIVE Text(_)
Text(chars) == IF chars = <<>> THEN "" ELSE Head(chars) \o Text(Tail(chars))

\* `self.tokens.push(Token { token_type, lexeme, line, column })`
push_token(lx, token_type, lexeme, line, column) ==
    [lx EXCEPT !.tokens =
        Append(@, token_type @@ [lexeme |-> lexeme, line |-> line, column |-> column])]

add_token(lx, token_type, lexeme) ==
    push_token(lx, token_type, lexeme, lx.line, lx.column)

\* Lexer::match_next: whether the next character is `expected`; scan_token
\* consumes it when it is.
match_next(src, lx, expected) == peek_is(src, lx, LAMBDA c : c = expected)

\* `if self.match_next('=') { add_token(two) } else { add_token(one) }`
one_or_two(src, lx, one, two) ==
    IF match_next(src, lx, "=")
    THEN add_token(lexer_advance(lx), T(two.type), two.lexeme)
    ELSE add_token(lx, T(one.type), one.lexeme)

\* The comment loop of scan_token: up to, not including, the next newline.
RECURSIVE skip_comment(_, _)
skip_comment(src, lx) ==
    IF peek_is(src, lx, LAMBDA c : c # "\n")
    THEN skip_comment(src, lexer_advance(lx))
    ELSE lx

\* The loop of Lexer::string: the lexer and the characters collected when
\* the next character is the closing quote or the source has ended.
RECURSIVE string_loop(_, _, _)
string_loop(src, lx, value) ==
    IF peek_is(src, lx, LAMBDA c : c # "\"")
    THEN string_loop(src,
                     lexer_advance(IF src[lx.current + 1] = "\n"
                                   THEN [lx EXCEPT !.line = @ + 1, !.column = 1]
                                   ELSE lx),
                     Append(value, src[lx.current + 1]))
    ELSE [lexer |-> lx, value |-> value]

\* A string token whose lexeme leaves out the quotes.
string_token_bare(lx, value, start_line, start_column) ==
    push_token(lx, Str(Text(value)), Text(value), start_line, start_column)

\* The token pushed by Lexer::string.
string_token(lx, value, start_line, start_column) ==
    push_token(lx, Str(Text(value)), "\"" \o Text(value) \o "\"", start_line, start_column)

\* Lexer::string after its loop.
string_end(src, r, start_line, start_column) ==
    IF r.lexer.current >= Len(src)
    THEN LexFail(r.lexer, LexerError(r.lexer.current, "Unterminated string."))
    ELSE string_token(lexer_advance(r.lexer), r.value, start_line, start_column)

\* Lexer::string
string(src, lx) == string_end(src, string_loop(src, lx, <<>>), lx.line, lx.column - 1)

RECURSIVE number_loop(_, _, _)
number_loop(src, lx, value) ==
    IF peek_is(src, lx, LAMBDA c : is_digit(c) \/ c = ".")
    THEN number_loop(src, lexer_advance(lx), Append(value, src[lx.current + 1]))
    ELSE [lexer |-> lx, value |-> value]

DigitValue(c) ==
    CASE c = "0" -> 0 [] c = "1" -> 1 [] c = "2" -> 2 [] c = "3" -> 3 [] c = "4" -> 4
      [] c = "5" -> 5 [] c = "6" -> 6 [] c = "7" -> 7 [] c = "8" -> 8 [] c = "9" -> 9

\* The integer written by the digits of `chars`, a `.` skipped.
RECURSIVE DigitsValue(_, _)
DigitsValue(chars, acc) ==
    IF chars = <<>> THEN acc
    ELSE DigitsValue(Tail(chars),
                     IF Head(chars) = "." THEN acc ELSE acc * 10 + DigitValue(Head(chars)))

RECURSIVE Pow10(_)
Pow10(n) == IF n = 0 THEN 1 ELSE 10 * Pow10(n - 1)

Dots(chars) == {i \in 1..Len(chars) : chars[i] = "."}

\* `value.parse::<f64>()` on digits and dots that start with a digit: an
\* error when there is more than one dot, else the fraction in lowest terms.
parse_f64(chars) ==
    IF Cardinality(Dots(chars)) > 1 THEN [err |-> TRUE]
    ELSE LET den == IF Dots(chars) = {} THEN 1
                    ELSE Pow10(Len(chars) - (CHOOSE i \in Dots(chars) : TRUE))
             num == DigitsValue(chars, 0)
         IN [err |-> FALSE,
             value |-> [num |-> num \div Gcd(num, den), den |-> den \div Gcd(num, den)]]

\* Lexer::number after its loop.
number_end(r, parsed, line, start_column) ==
    IF parsed.err
    THEN LexFail(r.lexer, LexerError(r.lexer.current,
                                     "Could not parse number: " \o Text(r.value)))
    ELSE push_token(r.lexer, [token_type |-> "Number", number |-> parsed.value],
                    Text(r.value), line, start_column)

number_parse(r, line, start_column) ==
    number_end(r, parse_f64(r.value), line, start_column)

\* Lexer::number
number(src, lx, first_digit) ==
    number_parse(number_loop(src, lx, <<first_digit>>), lx.line, lx.column - 1)

RECURSIVE identifier_loop(_, _, _)
identifier_loop(src, lx, name) ==
    IF peek_is(src, lx, is_alphanumeric)
    THEN identifier_loop(src, lexer_advance(lx), Append(name, src[lx.current + 1]))
    ELSE [lexer |-> lx, name |-> name]

\* The keywords map of Lexer::new.
Keywords ==
    [and |-> "And", else |-> "Else", false |-> "False", function |-> "Function",
     if |-> "If", null |-> "Null", or |-> "Or", return |-> "Return", true |-> "True",
     var |-> "Var", while |-> "While", let |-> "Let", const |-> "Const"]

\* Lexer::identifier after its loop.
identifier_end(r, line, start_column) ==
    push_token(r.lexer,
               IF Text(r.name) \in DOMAIN Keywords THEN T(Keywords[Text(r.name)])
               ELSE Id(Text(r.name)),
               Text(r.name), line, start_column)

\* Lexer::identifier
identifier(src, lx, first_char) ==
    identifier_end(identifier_loop(src, lx, <<first_char>>), lx.line, lx.column - 1)

\* The single-character tokens of scan_token.
SingleCharTokens ==
    [c \in {"(", ")", "{", "}", ",", ".", "-", "+", ";", "*"} |->
        CASE c = "(" -> "LeftParen" [] c = ")" -> "RightParen"
          [] c = "{" -> "LeftBrace" [] c = "}" -> "RightBrace"
          [] c = "," -> "Comma" [] c = "." -> "Dot" [] c = "-" -> "Minus"
          [] c = "+" -> "Plus" [] c = ";" -> "Semicolon" [] c = "*" -> "Star"]

\* Lexer::scan_token(c), on the lexer that has just consumed c.
scan_token(src, lx, c) ==
    CASE c \in DOMAIN SingleCharTokens -> add_token(lx, T(SingleCharTokens[c]), c)
      [] c = "!" -> one_or_two(src, lx, [type |-> "Bang", lexeme |-> "!"],
                               [type |-> "BangEqual", lexeme |-> "!="])
      [] c = "=" -> one_or_two(src, lx, [type |-> "Equal", lexeme |-> "="],
                               [type |-> "EqualEqual", lexeme |-> "=="])
      [] c = "<" -> one_or_two(src, lx, [type |-> "Less", lexeme |-> "<"],
                               [type |-> "LessEqual", lexeme |-> "<="])
      [] c = ">" -> one_or_two(src, lx, [type |-> "Greater", lexeme |-> ">"],
                               [type |-> "GreaterEqual", lexeme |-> ">="])
      [] c = "/" -> IF match_next(src, lx, "/") THEN skip_comment(src, lexer_advance(lx))
                    ELSE add_token(lx, T("Slash"), "/")
      [] c = "\"" -> string(src, lx)
      [] c \in {" ", "\r", "\t"} -> lx
      [] c = "\n" -> [lx EXCEPT !.line = @ + 1, !.column = 1]
      [] is_digit(c) -> number(src, lx, c)
      [] is_alpha(c) -> identifier(src, lx, c)
      [] OTHER -> LexFail(lx, LexerError(lx.current, "Unexpected character: " \o c))

\* The EOF token pushed by scan_tokens.
eof_token(lx) == add_token(lx, T("EOF"), "")

\* ------------------------------------------------------------------------
\* Input programs.  A program is written as the sequence of its tokens;
\* Tokens() places token i at line 1, column i and appends the EOF sentinel.
\* ------------------------------------------------------------------------
LP == T("LeftParen")

RP == T("RightParen")

LB == T("LeftBrace")

RB == T("RightBrace")

SEMI == T("Semicolon")

COMMA == T("Comma")

EQ == T("Equal")

PLUS == T("Plus")

MINUS == T("Minus")

LESS == T("Less")

VAR == T("Var")

FUN == T("Function")

RET == T("Return")

WHILE == T("While")

IFK == T("If")

ELSEK == T("Else")

KTrue == T("True")

KFalse == T("False")

KNull == T("Null")

Tokens(seq) ==
    [i \in 1..(Len(seq) + 1) |->
        (IF i <= Len(seq) THEN seq[i] ELSE T("EOF")) @@ [line |-> 1, column |-> i]]

\* function makeCounter() { var c = 0; return function() { c = c + 1; return c; }; }
\* var n = makeCounter(); n(); n(); n();
ProgCounter ==
    Tokens(<<FUN, Id("makeCounter"), LP, RP, LB,
               VAR, Id("c"), EQ, Num(0), SEMI,
               RET, FUN, LP, RP, LB,
                   Id("c"), EQ, Id("c"), PLUS, Num(1), SEMI,
                   RET, Id("c"), SEMI,
               RB, SEMI,
             RB,
             VAR, Id("n"), EQ, Id("makeCounter"), LP, RP, SEMI,
             Id("n"), LP, RP, SEMI, Id("n"), LP, RP, SEMI, Id("n"), LP, RP, SEMI>>)

\* var i = 0; while (i < 3) { i = i + 1; } i;
ProgWhile ==
    Tokens(<<VAR, Id("i"), EQ, Num(0), SEMI,
             WHILE, LP, Id("i"), LESS, Num(3), RP, LB,
                 Id("i"), EQ, Id("i"), PLUS, Num(1), SEMI, RB,
             Id("i"), SEMI>>)

\* Logical operators.  For an operator, a left operand and a right operand:
\*   var x = 0; function g() { return 9; } function f() { return 1; }
\*   <left> <op> <right>; x;
\* Each left operand comes with the truthiness of its value.
LeftOperands ==
    {[toks |-> <<KTrue>>, truthy |-> TRUE], [toks |-> <<KFalse>>, truthy |-> FALSE],
     [toks |-> <<Num(0)>>, truthy |-> FALSE], [toks |-> <<Num(1)>>, truthy |-> TRUE],
     [toks |-> <<Str("")>>, truthy |-> FALSE], [toks |-> <<Str("x")>>, truthy |-> TRUE],
     [toks |-> <<KNull>>, truthy |-> FALSE],
     [toks |-> <<Id("f"), LP, RP>>, truthy |-> TRUE]}

\* (x = 5), g() and the unbound name y.
RightOperands ==
    {<<LP, Id("x"), EQ, Num(5), RP>>, <<Id("g"), LP, RP>>, <<Id("y")>>}

LogicalOps == {"Or", "And"}

ProgLogical(op, left, right) ==
    Tokens(<<VAR, Id("x"), EQ, Num(0), SEMI,
             FUN, Id("g"), LP, RP, LB, RET, Num(9), SEMI, RB,
             FUN, Id("f"), LP, RP, LB, RET, Num(1), SEMI, RB>>
           \o left \o <<T(op)>> \o right \o <<SEMI, Id("x"), SEMI>>)

LogicalPrograms ==
    {ProgLogical(op, l.toks, r) : op \in LogicalOps, l \in LeftOperands, r \in RightOperands}

\* The programs whose left operand decides the result.
DecidedPrograms ==
    {ProgLogical("Or", l.toks, r) : l \in {o \in LeftOperands : o.truthy}, r \in RightOperands}
    \cup
    {ProgLogical("And", l.toks, r) : l \in {o \in LeftOperands : ~o.truthy}, r \in RightOperands}

\* Function bodies that execute no return statement:
\*   function f() { <body> } f();
NoReturnBodies ==
    {<<>>,
     <<Num(5), SEMI>>,
     <<VAR, Id("a"), EQ, Num(1), SEMI>>,
     <<VAR, Id("a"), EQ, Num(1), SEMI, Id("a"), SEMI>>,
     <<Num(5), SEMI, VAR, Id("a"), EQ, Num(1), SEMI>>,
     <<IFK, LP, KTrue, RP, LB, Num(7), SEMI, RB>>,
     <<IFK, LP, KFalse, RP, LB, RET, Num(7), SEMI, RB>>,
     <<LB, Str("s"), SEMI, RB>>}

ProgNoReturn(body) ==
    Tokens(<<FUN, Id("f"), LP, RP, LB>> \o body \o <<RB, Id("f"), LP, RP, SEMI>>)

NoReturnPrograms == {ProgNoReturn(body) : body \in NoReturnBodies}

\* var x = 1; function g() { return x; } x = 2; g();
ProgAssignAfterCapture ==
    Tokens(<<VAR, Id("x"), EQ, Num(1), SEMI,
             FUN, Id("g"), LP, RP, LB, RET, Id("x"), SEMI, RB,
             Id("x"), EQ, Num(2), SEMI,
             Id("g"), LP, RP, SEMI>>)

\* var x = 1; function f() { x = 2; } f(); x;
ProgAssignInCall ==
    Tokens(<<VAR, Id("x"), EQ, Num(1), SEMI,
             FUN, Id("f"), LP, RP, LB, Id("x"), EQ, Num(2), SEMI, RB,
             Id("f"), LP, RP, SEMI,
             Id("x"), SEMI>>)

\* Closures created inside a block and called after the block has exited.
\* Each case pairs the program with the values the name read by the closure
\* has held from the evaluation of the literal on.
\*   var f; { var a = 1; f = function() { return a; }; } f();
ProgBlockLocal ==
    Tokens(<<VAR, Id("f"), SEMI,
             LB, VAR, Id("a"), EQ, Num(1), SEMI,
                 Id("f"), EQ, FUN, LP, RP, LB, RET, Id("a"), SEMI, RB, SEMI,
             RB,
             Id("f"), LP, RP, SEMI>>)

\*   var f; { var a = 1; f = function() { return a; }; a = 2; } f();
ProgBlockLocalAssigned ==
    Tokens(<<VAR, Id("f"), SEMI,
             LB, VAR, Id("a"), EQ, Num(1), SEMI,
                 Id("f"), EQ, FUN, LP, RP, LB, RET, Id("a"), SEMI, RB, SEMI,
                 Id("a"), EQ, Num(2), SEMI,
             RB,
             Id("f"), LP, RP, SEMI>>)

\*   var g = 1; var f; { f = function() { return g; }; } f();
ProgBlockGlobal ==
    Tokens(<<VAR, Id("g"), EQ, Num(1), SEMI, VAR, Id("f"), SEMI,
             LB, Id("f"), EQ, FUN, LP, RP, LB, RET, Id("g"), SEMI, RB, SEMI, RB,
             Id("f"), LP, RP, SEMI>>)

\*   var g = 1; var f; { f = function() { return g; }; } g = 2; f();
ProgBlockGlobalAssigned ==
    Tokens(<<VAR, Id("g"), EQ, Num(1), SEMI, VAR, Id("f"), SEMI,
             LB, Id("f"), EQ, FUN, LP, RP, LB, RET, Id("g"), SEMI, RB, SEMI, RB,
             Id("g"), EQ, Num(2), SEMI,
             Id("f"), LP, RP, SEMI>>)

\*   var f; { var a = 1; { var b = 2; f = function() { return a + b; }; } } f();
ProgBlockNested ==
    Tokens(<<VAR, Id("f"), SEMI,
             LB, VAR, Id("a"), EQ, Num(1), SEMI,
                 LB, VAR, Id("b"), EQ, Num(2), SEMI,
                     Id("f"), EQ, FUN, LP, RP, LB,
                         RET, Id("a"), PLUS, Id("b"), SEMI, RB, SEMI,
                 RB,
             RB,
             Id("f"), LP, RP, SEMI>>)

\*   var f; { var a = 1; { f = function() { return a; }; } a = 5; } f();
ProgBlockOuterAssigned ==
    Tokens(<<VAR, Id("f"), SEMI,
             LB, VAR, Id("a"), EQ, Num(1), SEMI,
                 LB, Id("f"), EQ, FUN, LP, RP, LB, RET, Id("a"), SEMI, RB, SEMI, RB,
                 Id("a"), EQ, Num(5), SEMI,
             RB,
             Id("f"), LP, RP, SEMI>>)

\*   function mk(p) { var a = 1; { var b = 2;
\*       return function() { return p + a + b; }; } }
\*   var f = mk(4); f();
ProgBlockInCall ==
    Tokens(<<FUN, Id("mk"), LP, Id("p"), RP, LB,
                 VAR, Id("a"), EQ, Num(1), SEMI,
                 LB, VAR, Id("b"), EQ, Num(2), SEMI,
                     RET, FUN, LP, RP, LB,
                         RET, Id("p"), PLUS, Id("a"), PLUS, Id("b"), SEMI, RB, SEMI,
                 RB,
             RB,
             VAR, Id("f"), EQ, Id("mk"), LP, Num(4), RP, SEMI,
             Id("f"), LP, RP, SEMI>>)

BlockClosureCases ==
    {[toks |-> ProgBlockLocal, values |-> {Number(1)}],
     [toks |-> ProgBlockLocalAssigned, values |-> {Number(1), Number(2)}],
     [toks |-> ProgBlockGlobal, values |-> {Number(1)}],
     [toks |-> ProgBlockGlobalAssigned, values |-> {Number(1), Number(2)}],
     [toks |-> ProgBlockNested, values |-> {Number(3)}],
     [toks |-> ProgBlockOuterAssigned, values |-> {Number(1), Number(5)}],
     [toks |-> ProgBlockInCall, values |-> {Number(7)}]}

BlockClosurePrograms == {c.toks : c \in BlockClosureCases}

\* A callee f and a caller g whose local frames hold a name that f reads.
\* Each case pairs the program with its outcome under lexical scoping.
\*   var x = 1; function f() { return x; }
\*   function g() { var x = 2; return f(); } g();
ProgLexical ==
    Tokens(<<VAR, Id("x"), EQ, Num(1), SEMI,
             FUN, Id("f"), LP, RP, LB, RET, Id("x"), SEMI, RB,
             FUN, Id("g"), LP, RP, LB,
                 VAR, Id("x"), EQ, Num(2), SEMI, RET, Id("f"), LP, RP, SEMI, RB,
             Id("g"), LP, RP, SEMI>>)

\*   function f() { return y; } function g() { var y = 2; return f(); } g();
ProgLexicalUnbound ==
    Tokens(<<FUN, Id("f"), LP, RP, LB, RET, Id("y"), SEMI, RB,
             FUN, Id("g"), LP, RP, LB,
                 VAR, Id("y"), EQ, Num(2), SEMI, RET, Id("f"), LP, RP, SEMI, RB,
             Id("g"), LP, RP, SEMI>>)

\*   var x = 1; function f(x) { return x; }
\*   function g() { var x = 2; return f(3); } g();
ProgLexicalParameter ==
    Tokens(<<VAR, Id("x"), EQ, Num(1), SEMI,
             FUN, Id("f"), LP, Id("x"), RP, LB, RET, Id("x"), SEMI, RB,
             FUN, Id("g"), LP, RP, LB,
                 VAR, Id("x"), EQ, Num(2), SEMI, RET, Id("f"), LP, Num(3), RP, SEMI, RB,
             Id("g"), LP, RP, SEMI>>)

\*   var x = 1; function f() { return x; } function g(x) { return f(); } g(2);
ProgLexicalCallerParameter ==
    Tokens(<<VAR, Id("x"), EQ, Num(1), SEMI,
             FUN, Id("f"), LP, RP, LB, RET, Id("x"), SEMI, RB,
             FUN, Id("g"), LP, Id("x"), RP, LB, RET, Id("f"), LP, RP, SEMI, RB,
             Id("g"), LP, Num(2), RP, SEMI>>)

\*   var x = 1; function f() { return x; }
\*   function g() { var x = 2; { var x = 3; return f(); } } g();
ProgLexicalCallerBlock ==
    Tokens(<<VAR, Id("x"), EQ, Num(1), SEMI,
             FUN, Id("f"), LP, RP, LB, RET, Id("x"), SEMI, RB,
             FUN, Id("g"), LP, RP, LB,
                 VAR, Id("x"), EQ, Num(2), SEMI,
                 LB, VAR, Id("x"), EQ, Num(3), SEMI, RET, Id("f"), LP, RP, SEMI, RB,
             RB,
             Id("g"), LP, RP, SEMI>>)

LexicalCases ==
    {[toks |-> ProgLexical, outcome |-> Finished(Number(1), "end")],
     [toks |-> ProgLexicalUnbound,
      outcome |-> Failed(ReferenceError("'y' is not defined"))],
     [toks |-> ProgLexicalParameter, outcome |-> Finished(Number(3), "end")],
     [toks |-> ProgLexicalCallerParameter, outcome |-> Finished(Number(1), "end")],
     [toks |-> ProgLexicalCallerBlock, outcome |-> Finished(Number(1), "end")]}

LexicalPrograms == {c.toks : c \in LexicalCases}

\* Programs for the result of interpret.
\*   { 5; var x = 1; }
ProgBlockValueThenDeclaration ==
    Tokens(<<LB, Num(5), SEMI, VAR, Id("x"), EQ, Num(1), SEMI, RB>>)

\*   1; { 5; var x = 1; }
ProgValueThenBlock ==
    Tokens(<<Num(1), SEMI, LB, Num(5), SEMI, VAR, Id("x"), EQ, Num(1), SEMI, RB>>)

\*   5; var x = 1;
ProgValueThenDeclaration == Tokens(<<Num(5), SEMI, VAR, Id("x"), EQ, Num(1), SEMI>>)

\*   if (true) { 4; }
ProgIfValue == Tokens(<<IFK, LP, KTrue, RP, LB, Num(4), SEMI, RB>>)

\*   1; if (false) { 2; }
ProgIfNotTaken == Tokens(<<Num(1), SEMI, IFK, LP, KFalse, RP, LB, Num(2), SEMI, RB>>)

\*   1; if (false) { 2; } else { 3; function h() { } }
ProgElseValueThenFunction ==
    Tokens(<<Num(1), SEMI, IFK, LP, KFalse, RP, LB, Num(2), SEMI, RB,
             ELSEK, LB, Num(3), SEMI, FUN, Id("h"), LP, RP, LB, RB, RB>>)

\*   var x = 1;
ProgDeclarationOnly == Tokens(<<VAR, Id("x"), EQ, Num(1), SEMI>>)

\*   6; while (false) { 7; }
ProgWhileNotEntered ==
    Tokens(<<Num(6), SEMI, WHILE, LP, KFalse, RP, LB, Num(7), SEMI, RB>>)

\*   return 7; 8;
ProgReturnFirst == Tokens(<<RET, Num(7), SEMI, Num(8), SEMI>>)

\*   1; { return 3; } 9;
ProgReturnInBlock == Tokens(<<Num(1), SEMI, LB, RET, Num(3), SEMI, RB, Num(9), SEMI>>)

\*   while (true) { 2; return 4; } 9;
ProgReturnInWhile ==
    Tokens(<<WHILE, LP, KTrue, RP, LB, Num(2), SEMI, RET, Num(4), SEMI, RB, Num(9), SEMI>>)

\* The programs with a return that escapes to the top level, each with the
\* value of its first such return.
ReturnCases ==
    {[toks |-> ProgReturnFirst, value |-> Number(7)],
     [toks |-> ProgReturnInBlock, value |-> Number(3)],
     [toks |-> ProgReturnInWhile, value |-> Number(4)]}

ResultPrograms ==
    {ProgBlockValueThenDeclaration, ProgValueThenBlock, ProgValueThenDeclaration,
     ProgIfValue, ProgIfNotTaken, ProgElseValueThenFunction, ProgDeclarationOnly,
     ProgWhileNotEntered}
    \cup {c.toks : c \in ReturnCases}

\* Operator expressions over three variables:
\*   var a = 8; var b = 4; var c = 2;  followed by one expression statement.
OperandDeclarations ==
    <<VAR, Id("a"), EQ, Num(8), SEMI, VAR, Id("b"), EQ, Num(4), SEMI,
      VAR, Id("c"), EQ, Num(2), SEMI>>

BinaryTokens ==
    {"Plus", "Minus", "Star", "Slash", "EqualEqual", "BangEqual",
     "Less", "LessEqual", "Greater", "GreaterEqual", "And", "Or"}

UnaryTokens == {"Minus", "Bang"}

\*   a <op1> b <op2> c;
ProgBinary(op1, op2) ==
    Tokens(OperandDeclarations \o <<Id("a"), T(op1), Id("b"), T(op2), Id("c"), SEMI>>)

\*   <u> a <op> b;
ProgUnary(u, op) ==
    Tokens(OperandDeclarations \o <<T(u), Id("a"), T(op), Id("b"), SEMI>>)

\*   a = b <op> c;
ProgAssign(op) ==
    Tokens(OperandDeclarations \o <<Id("a"), EQ, Id("b"), T(op), Id("c"), SEMI>>)

OperatorPrograms ==
    {ProgBinary(op1, op2) : op1 \in BinaryTokens, op2 \in BinaryTokens}
    \cup {ProgUnary(u, op) : u \in UnaryTokens, op \in BinaryTokens}
    \cup {ProgAssign(op) : op \in BinaryTokens}

\*   var f; { f = function() { return f(); }; } f();
ProgRecursion ==
    Tokens(<<VAR, Id("f"), SEMI,
             LB, Id("f"), EQ, FUN, LP, RP, LB, RET, Id("f"), LP, RP, SEMI, RB, SEMI, RB,
             Id("f"), LP, RP, SEMI>>)

\*   "hi " + 1 + 2;
ProgConcatLeft == Tokens(<<Str("hi "), PLUS, Num(1), PLUS, Num(2), SEMI>>)

\*   1 + 2 + "hi";
ProgConcatRight == Tokens(<<Num(1), PLUS, Num(2), PLUS, Str("hi"), SEMI>>)

\*   x;
ProgReadUnbound == Tokens(<<Id("x"), SEMI>>)

\*   var x = 1; { var z = 2; x = 5; y = 3; }
ProgAssignUnbound ==
    Tokens(<<VAR, Id("x"), EQ, Num(1), SEMI,
             LB, VAR, Id("z"), EQ, Num(2), SEMI, Id("x"), EQ, Num(5), SEMI,
                 Id("y"), EQ, Num(3), SEMI, RB>>)

\*   var x = 1; { var x = 2; { x = 3; } }
ProgAssignShadowed ==
    Tokens(<<VAR, Id("x"), EQ, Num(1), SEMI,
             LB, VAR, Id("x"), EQ, Num(2), SEMI, LB, Id("x"), EQ, Num(3), SEMI, RB, RB>>)

\* Operands of each kind a program can write, for programs that start with
\*   var u; var g = function() {};
TypedDeclarations ==
    <<VAR, Id("u"), SEMI, VAR, Id("g"), EQ, FUN, LP, RP, LB, RB, SEMI>>

TypedOperands ==
    {[kind |-> "Number", toks |-> <<Num(1)>>],
     [kind |-> "String", toks |-> <<Str("a")>>],
     [kind |-> "Boolean", toks |-> <<KTrue>>],
     [kind |-> "Null", toks |-> <<KNull>>],
     [kind |-> "Undefined", toks |-> <<Id("u")>>],
     [kind |-> "Function", toks |-> <<Id("g")>>]}

ArithmeticTokens ==
    {"Plus", "Minus", "Star", "Slash", "Less", "LessEqual", "Greater", "GreaterEqual"}

\*   var u; var g = function() {}; <left> <op> <right>;
ProgTyped(op, left, right) ==
    Tokens(TypedDeclarations \o left \o <<T(op)>> \o right \o <<SEMI>>)

\*   var u; var g = function() {}; - <right>;
ProgNegate(right) == Tokens(TypedDeclarations \o <<MINUS>> \o right \o <<SEMI>>)

TypedPrograms ==
    {ProgTyped(op, l.toks, r.toks) : op \in ArithmeticTokens,
                                     l \in TypedOperands, r \in TypedOperands}
    \cup {ProgNegate(r.toks) : r \in TypedOperands}

\* Source texts.  Chars() is the character sequence of a text written as
\* the sequence of its pieces.
RECURSIVE Chars(_)
Chars(pieces) == IF pieces = <<>> THEN <<>> ELSE Head(pieces) \o Chars(Tail(pieces))

Space == <<" ">>

Newline == <<"\n">>

Quote == <<"\"">>

KwVar == <<"v", "a", "r">>

KwIf == <<"i", "f">>

KwElse == <<"e", "l", "s", "e">>

KwReturn == <<"r", "e", "t", "u", "r", "n">>

KwFunction == <<"f", "u", "n", "c", "t", "i", "o", "n">>

\*   (
SrcParen == <<"(">>

\*   var x = 10;
SrcDeclaration == Chars(<<KwVar, Space, <<"x">>, Space, <<"=">>, Space, <<"1", "0", ";">>>>)

\*   x1 <= 2 != !y
SrcOperators ==
    Chars(<<<<"x", "1">>, Space, <<"<", "=">>, Space, <<"2">>, Space, <<"!", "=">>, Space,
            <<"!", "y">>>>)

\*   a>=b==c<d>e
SrcDense == <<"a", ">", "=", "b", "=", "=", "c", "<", "d", ">", "e">>

\*   1 + 2; // sum
\*   3 / 4;
SrcComment ==
    Chars(<<<<"1">>, Space, <<"+">>, Space, <<"2", ";">>, Space, <<"/", "/">>, Space,
            <<"s", "u", "m">>, Newline, <<"3">>, Space, <<"/">>, Space, <<"4", ";">>>>)

\*   "a b" + "c//d";
SrcStrings ==
    Chars(<<Quote, <<"a", " ", "b">>, Quote, Space, <<"+">>, Space,
            Quote, <<"c", "/", "/", "d">>, Quote, <<";">>>>)

\*   "a
\*   b" ;
\*   {x}
SrcMultiline ==
    Chars(<<Quote, <<"a">>, Newline, <<"b">>, Quote, Space, <<";">>, Newline,
            <<"{", "x", "}">>>>)

\*   if (x) {
\*   <tab>return 1.5;
\*   } else { f(a, b); }
SrcIndented ==
    Chars(<<KwIf, Space, <<"(", "x", ")">>, Space, <<"{">>, Newline,
            <<"\t">>, KwReturn, Space, <<"1", ".", "5", ";">>, Newline,
            <<"}">>, Space, KwElse, Space, <<"{">>, Space,
            <<"f", "(", "a", ",", " ", "b", ")", ";">>, Space, <<"}">>>>)

\*   function f(n) { return n * 2; }
\*   f(4) - 1;
SrcFunction ==
    Chars(<<KwFunction, Space, <<"f", "(", "n", ")">>, Space, <<"{">>, Space, KwReturn, Space,
            <<"n">>, Space, <<"*">>, Space, <<"2", ";">>, Space, <<"}">>, Newline,
            <<"f", "(", "4", ")">>, Space, <<"-">>, Space, <<"1", ";">>>>)

\*   a.b
SrcDot == <<"a", ".", "b">>

\*   1.2.3
SrcTwoDots == <<"1", ".", "2", ".", "3">>

\*   "abc
SrcUnterminated == Chars(<<Quote, <<"a", "b", "c">>>>)

\*   x # y
SrcUnexpected == <<"x", " ", "#", " ", "y">>

\*   // only a comment
SrcOnlyComment == Chars(<<<<"/", "/">>, Space, <<"o", "n", "l", "y">>>>)

\*   var _v2 = 7;<cr><newline>_v2;
SrcCarriageReturn ==
    Chars(<<KwVar, Space, <<"_", "v", "2">>, Space, <<"=">>, Space, <<"7", ";", "\r">>, Newline,
            <<"_", "v", "2", ";">>>>)

Sources ==
    {<<>>, SrcParen, SrcDeclaration, SrcOperators, SrcDense, SrcComment, SrcStrings,
     SrcMultiline, SrcIndented, SrcFunction, SrcDot, SrcTwoDots, SrcUnterminated,
     SrcUnexpected, SrcOnlyComment, SrcCarriageReturn}

\* Conditions and the truthiness of their values, for programs that start
\* with TypedDeclarations.  `1 / 0` is infinity, `1 / 0 - 1 / 0` is NaN.
Conditions ==
    {[toks |-> <<KFalse>>, truthy |-> FALSE],
     [toks |-> <<KNull>>, truthy |-> FALSE],
     [toks |-> <<Id("u")>>, truthy |-> FALSE],
     [toks |-> <<Num(0)>>, truthy |-> FALSE],
     [toks |-> <<MINUS, Num(0)>>, truthy |-> FALSE],
     [toks |-> <<Num(1), T("Slash"), Num(0), MINUS, Num(1), T("Slash"), Num(0)>>,
      truthy |-> FALSE],
     [toks |-> <<Str("")>>, truthy |-> FALSE],
     [toks |-> <<KTrue>>, truthy |-> TRUE],
     [toks |-> <<Num(1)>>, truthy |-> TRUE],
     [toks |-> <<MINUS, Num(1)>>, truthy |-> TRUE],
     [toks |-> <<Num(1), T("Slash"), Num(0)>>, truthy |-> TRUE],
     [toks |-> <<Str("x")>>, truthy |-> TRUE],
     [toks |-> <<Str("0")>>, truthy |-> TRUE],
     [toks |-> <<Str(" ")>>, truthy |-> TRUE],
     [toks |-> <<Id("g")>>, truthy |-> TRUE]}

\*   var u; var g = function() {}; if (<condition>) { 1; } else { 2; }
ProgIfElse(condition) ==
    Tokens(TypedDeclarations \o <<IFK, LP>> \o condition
           \o <<RP, LB, Num(1), SEMI, RB, ELSEK, LB, Num(2), SEMI, RB>>)

\*   var u; var g = function() {}; if (<condition>) { 1; }
ProgIfOnly(condition) ==
    Tokens(TypedDeclarations \o <<IFK, LP>> \o condition \o <<RP, LB, Num(1), SEMI, RB>>)

TruthinessPrograms ==
    {ProgIfElse(c.toks) : c \in Conditions} \cup {ProgIfOnly(c.toks) : c \in Conditions}

\* Dividends and zero divisors.
Dividends ==
    {<<Num(0)>>, <<Num(1)>>, <<Num(8)>>, <<MINUS, Num(1)>>, <<MINUS, Num(0)>>,
     <<LP, Num(1), T("Slash"), Num(0), RP>>,
     <<LP, MINUS, Num(1), T("Star"), LP, Num(1), T("Slash"), Num(0), RP, RP>>,
     <<LP, Num(1), T("Slash"), Num(0), MINUS, Num(1), T("Slash"), Num(0), RP>>}

ZeroDivisors ==
    {<<Num(0)>>, <<MINUS, Num(0)>>, <<LP, Num(0), T("Star"), MINUS, Num(1), RP>>,
     <<LP, Num(1), MINUS, Num(1), RP>>}

\*   var z = <divisor>; var a = <dividend>; a / z;
ProgDivide(dividend, divisor) ==
    Tokens(<<VAR, Id("z"), EQ>> \o divisor \o <<SEMI, VAR, Id("a"), EQ>> \o dividend
           \o <<SEMI, Id("a"), T("Slash"), Id("z"), SEMI>>)

DivisionPrograms == {ProgDivide(a, z) : a \in Dividends, z \in ZeroDivisors}

\*   function f(n) { if (n < 1) { return 0; } return f(n - 1); } f(1);
ProgSelfCall ==
    Tokens(<<FUN, Id("f"), LP, Id("n"), RP, LB,
                 IFK, LP, Id("n"), LESS, Num(1), RP, LB, RET, Num(0), SEMI, RB,
                 RET, Id("f"), LP, Id("n"), MINUS, Num(1), RP, SEMI, RB,
             Id("f"), LP, Num(1), RP, SEMI>>)

\*   { function f(n) { if (n < 1) { return 0; } return f(n - 1); } f(1); }
ProgSelfCallInBlock ==
    Tokens(<<LB, FUN, Id("f"), LP, Id("n"), RP, LB,
                 IFK, LP, Id("n"), LESS, Num(1), RP, LB, RET, Num(0), SEMI, RB,
                 RET, Id("f"), LP, Id("n"), MINUS, Num(1), RP, SEMI, RB,
             Id("f"), LP, Num(1), RP, SEMI, RB>>)

\*   { x; }
ProgErrorInBlock == Tokens(<<LB, Id("x"), SEMI, RB>>)

\*   function f() { x; } f();
ProgErrorInCall ==
    Tokens(<<FUN, Id("f"), LP, RP, LB, Id("x"), SEMI, RB, Id("f"), LP, RP, SEMI>>)

\*   function g() { return 9; }
DeclareG == <<FUN, Id("g"), LP, RP, LB, RET, Num(9), SEMI, RB>>

CallG == <<Id("g"), LP, RP, SEMI>>

\*   function g() { return 9; }
\*   function f() { { if (true) { while (true) { return 1; g(); } g(); } g(); } g(); return 2; }
\*   var r = f();
\*   r + 10;
ProgReturnNested ==
    Tokens(DeclareG
           \o <<FUN, Id("f"), LP, RP, LB,
                    LB, IFK, LP, KTrue, RP, LB,
                            WHILE, LP, KTrue, RP, LB, RET, Num(1), SEMI>> \o CallG \o <<RB>>
                        \o CallG \o <<RB>>
                    \o CallG \o <<RB>>
                \o CallG \o <<RET, Num(2), SEMI, RB>>
           \o <<VAR, Id("r"), EQ, Id("f"), LP, RP, SEMI,
                Id("r"), PLUS, Num(10), SEMI>>)

\*   function g() { return 9; }
\*   function f() { while (true) { { return 1; } } g(); }
\*   function h() { var r = f(); return r + g(); }
\*   h() + 100;
ProgReturnToCaller ==
    Tokens(DeclareG
           \o <<FUN, Id("f"), LP, RP, LB,
                    WHILE, LP, KTrue, RP, LB, LB, RET, Num(1), SEMI, RB, RB>>
                \o CallG \o <<RB>>
           \o <<FUN, Id("h"), LP, RP, LB,
                    VAR, Id("r"), EQ, Id("f"), LP, RP, SEMI,
                    RET, Id("r"), PLUS, Id("g"), LP, RP, SEMI, RB,
                Id("h"), LP, RP, PLUS, Num(100), SEMI>>)

\*   function f() { if (false) { return 1; } else { return 2; } return 3; }
\*   f(); f() + 1;
ProgReturnInElse ==
    Tokens(<<FUN, Id("f"), LP, RP, LB,
                 IFK, LP, KFalse, RP, LB, RET, Num(1), SEMI, RB,
                 ELSEK, LB, RET, Num(2), SEMI, RB, RET, Num(3), SEMI, RB,
             Id("f"), LP, RP, SEMI, Id("f"), LP, RP, PLUS, Num(1), SEMI>>)

ReturnInCallCases ==
    {[toks |-> ProgReturnNested, value |-> Number(11), calls |-> <<ExprVariable("f")>>],
     [toks |-> ProgReturnToCaller, value |-> Number(110),
      calls |-> <<ExprVariable("h"), ExprVariable("f"), ExprVariable("g")>>],
     [toks |-> ProgReturnInElse, value |-> Number(3),
      calls |-> <<ExprVariable("f"), ExprVariable("f")>>]}

ReturnInCallPrograms == {c.toks : c \in ReturnInCallCases}

\*   i = i + 1;
IncrementI == <<Id("i"), EQ, Id("i"), PLUS, Num(1), SEMI>>

\*   function c() { return false; } function b() { return 1; }
\*   7; while (c()) { b(); }
ProgWhileFalsy ==
    Tokens(<<FUN, Id("c"), LP, RP, LB, RET, KFalse, SEMI, RB,
             FUN, Id("b"), LP, RP, LB, RET, Num(1), SEMI, RB,
             Num(7), SEMI,
             WHILE, LP, Id("c"), LP, RP, RP, LB, Id("b"), LP, RP, SEMI, RB>>)

\*   function c() { return true; } var i = 0;
\*   while (c()) { i = i + 1; if (i == 3) { return i; } }
ProgWhileCondition ==
    Tokens(<<FUN, Id("c"), LP, RP, LB, RET, KTrue, SEMI, RB, VAR, Id("i"), EQ, Num(0), SEMI,
             WHILE, LP, Id("c"), LP, RP, RP, LB>> \o IncrementI
           \o <<IFK, LP, Id("i"), T("EqualEqual"), Num(3), RP, LB, RET, Id("i"), SEMI, RB, RB>>)

\*   var i = 0; while (i < 2) { i = i + 1; if (i == 4) { return i; } }
ProgWhileStale ==
    Tokens(<<VAR, Id("i"), EQ, Num(0), SEMI,
             WHILE, LP, Id("i"), LESS, Num(2), RP, LB>> \o IncrementI
           \o <<IFK, LP, Id("i"), T("EqualEqual"), Num(4), RP, LB, RET, Id("i"), SEMI, RB, RB>>)

\*   var i = 0; while (i < 1) { i = i + 1; if (i == 3) { x; } }
ProgWhileError ==
    Tokens(<<VAR, Id("i"), EQ, Num(0), SEMI,
             WHILE, LP, Id("i"), LESS, Num(1), RP, LB>> \o IncrementI
           \o <<IFK, LP, Id("i"), T("EqualEqual"), Num(3), RP, LB, Id("x"), SEMI, RB, RB>>)

WhilePrograms == {ProgWhileFalsy, ProgWhileCondition, ProgWhileStale, ProgWhileError}

\*   var a = 0; var b = 0;
DeclareAB == <<VAR, Id("a"), EQ, Num(0), SEMI, VAR, Id("b"), EQ, Num(0), SEMI>>

\*   (a) = 1;
ProgAssignGrouped == Tokens(DeclareAB \o <<LP, Id("a"), RP, EQ, Num(1), SEMI>>)

\*   1 = 2;
ProgAssignLiteral == Tokens(DeclareAB \o <<Num(1), EQ, Num(2), SEMI>>)

\*   a() = 1;
ProgAssignCall == Tokens(DeclareAB \o <<Id("a"), LP, RP, EQ, Num(1), SEMI>>)

\*   a + b = 1;
ProgAssignBinary == Tokens(DeclareAB \o <<Id("a"), PLUS, Id("b"), EQ, Num(1), SEMI>>)

\*   a = b = 3;
ProgAssignChain == Tokens(DeclareAB \o <<Id("a"), EQ, Id("b"), EQ, Num(3), SEMI>>)

InvalidTargetPrograms ==
    {ProgAssignGrouped, ProgAssignLiteral, ProgAssignCall, ProgAssignBinary}

AssignmentTargetPrograms == InvalidTargetPrograms \cup {ProgAssignChain}

\*   var x = 1; var y; { var x = 2; y = x; } x;
ProgDeclShadow ==
    Tokens(<<VAR, Id("x"), EQ, Num(1), SEMI, VAR, Id("y"), SEMI,
             LB, VAR, Id("x"), EQ, Num(2), SEMI, Id("y"), EQ, Id("x"), SEMI, RB,
             Id("x"), SEMI>>)

\*   var x = 1; var y; { var t = 5; y = t; } t;
ProgDeclLocalOnly ==
    Tokens(<<VAR, Id("x"), EQ, Num(1), SEMI, VAR, Id("y"), SEMI,
             LB, VAR, Id("t"), EQ, Num(5), SEMI, Id("y"), EQ, Id("t"), SEMI, RB,
             Id("t"), SEMI>>)

\*   var x = 1; var y; { var x = 2; { var x = 3; y = x; } y = y * 10 + x; } x;
ProgDeclNested ==
    Tokens(<<VAR, Id("x"), EQ, Num(1), SEMI, VAR, Id("y"), SEMI,
             LB, VAR, Id("x"), EQ, Num(2), SEMI,
                 LB, VAR, Id("x"), EQ, Num(3), SEMI, Id("y"), EQ, Id("x"), SEMI, RB,
                 Id("y"), EQ, Id("y"), T("Star"), Num(10), PLUS, Id("x"), SEMI,
             RB,
             Id("x"), SEMI>>)

\*   var x = 1; var y = 0; { var x; y = x; } x;
ProgDeclUninitialized ==
    Tokens(<<VAR, Id("x"), EQ, Num(1), SEMI, VAR, Id("y"), EQ, Num(0), SEMI,
             LB, VAR, Id("x"), SEMI, Id("y"), EQ, Id("x"), SEMI, RB,
             Id("x"), SEMI>>)

\*   var x = 1; var y;
\*   function f() { var x = 7; var r; { var x = 8; r = x; } return r * 10 + x; }
\*   f() * 10 + x;
ProgDeclInCall ==
    Tokens(<<VAR, Id("x"), EQ, Num(1), SEMI, VAR, Id("y"), SEMI,
             FUN, Id("f"), LP, RP, LB,
                 VAR, Id("x"), EQ, Num(7), SEMI, VAR, Id("r"), SEMI,
                 LB, VAR, Id("x"), EQ, Num(8), SEMI, Id("r"), EQ, Id("x"), SEMI, RB,
                 RET, Id("r"), T("Star"), Num(10), PLUS, Id("x"), SEMI,
             RB,
             Id("f"), LP, RP, T("Star"), Num(10), PLUS, Id("x"), SEMI>>)

BlockDeclarationPrograms ==
    {ProgDeclShadow, ProgDeclLocalOnly, ProgDeclNested, ProgDeclUninitialized,
     ProgDeclInCall}

\* Token vectors for the parser alone: every vector of at most MaxVector
\* tokens over ParserAlphabet (an EOF token inside the vector included), and
\* every truncation of a program that uses each parsing loop, each followed
\* by the EOF sentinel.
MaxVector == 2

ParserAlphabet ==
    {LP, RP, LB, RB, COMMA, SEMI, EQ, PLUS, MINUS, VAR, FUN, RET, WHILE, IFK,
     Id("a"), Num(1), T("EOF")}

ShortVectors ==
    {Tokens(seq) : seq \in UNION {[1..k -> ParserAlphabet] : k \in 0..MaxVector}}

\*   function f(a, b) { if (a < b) { return a; } else { while (a) { var c = f(a, b) + -1; } } }
\*   f(1, 2)(3);
LoopsText ==
    <<FUN, Id("f"), LP, Id("a"), COMMA, Id("b"), RP, LB,
          IFK, LP, Id("a"), LESS, Id("b"), RP, LB, RET, Id("a"), SEMI, RB,
          ELSEK, LB,
              WHILE, LP, Id("a"), RP, LB,
                  VAR, Id("c"), EQ, Id("f"), LP, Id("a"), COMMA, Id("b"), RP,
                      PLUS, MINUS, Num(1), SEMI,
              RB,
          RB,
      RB,
      Id("f"), LP, Num(1), COMMA, Num(2), RP, LP, Num(3), RP, SEMI>>

ProgLoops == Tokens(LoopsText)

TruncatedPrograms == {Tokens(SubSeq(LoopsText, 1, n)) : n \in 0..(Len(LoopsText) - 1)}

ParserVectors == ShortVectors \cup TruncatedPrograms \cup {ProgLoops}

\* Input lines of an interactive session, each as read_line returns it
\* (with its newline), and the number of lines a session reads.
MaxLines == 3

\*   var x = 1;
LineDeclareX == Chars(<<KwVar, Space, <<"x">>, Space, <<"=">>, Space, <<"1", ";">>, Newline>>)

\*   x;
LineReadX == <<"x", ";", "\n">>

\*   x = 2;
LineAssignX == Chars(<<<<"x">>, Space, <<"=">>, Space, <<"2", ";">>, Newline>>)

\*   var x = 1; x;
LineDeclareAndReadX ==
    Chars(<<KwVar, Space, <<"x">>, Space, <<"=">>, Space, <<"1", ";">>, Space, <<"x", ";">>,
            Newline>>)

\*   function f() { return 3; }
LineDeclareF ==
    Chars(<<KwFunction, Space, <<"f", "(", ")">>, Space, <<"{">>, Space, KwReturn, Space,
            <<"3", ";">>, Space, <<"}">>, Newline>>)

\*   f();
LineCallF == <<"f", "(", ")", ";", "\n">>

\* A line of white space only.
LineBlank == <<" ", "\n">>

\*   #
LineLexerError == <<"#", "\n">>

\*   x +
LineParserError == <<"x", " ", "+", "\n">>

Lines ==
    {LineDeclareX, LineReadX, LineAssignX, LineDeclareAndReadX, LineDeclareF, LineCallF,
     LineBlank, LineLexerError, LineParserError}

Programs ==
    {ProgCounter, ProgWhile, ProgAssignAfterCapture, ProgAssignInCall,
     ProgConcatLeft, ProgConcatRight, ProgRecursion}
    \cup LogicalPrograms \cup NoReturnPrograms \cup BlockClosurePrograms
    \cup LexicalPrograms \cup ResultPrograms \cup OperatorPrograms
    \cup {ProgReadUnbound, ProgAssignUnbound, ProgAssignShadowed}
    \cup TypedPrograms
    \cup TruthinessPrograms
    \cup DivisionPrograms
    \cup {ProgSelfCall, ProgSelfCallInBlock}
    \cup {ProgErrorInBlock, ProgErrorInCall}
    \cup ReturnInCallPrograms
    \cup WhilePrograms
    \cup AssignmentTargetPrograms
    \cup BlockDeclarationPrograms
    \cup ParserVectors

\* ------------------------------------------------------------------------
\* The pipeline of execute_js (main.rs): parse the tokens, then interpret
\* the statements one by one.
\*   phase  "lex"    Lexer::scan_tokens is consuming `source`
\*          "parse"  the parser has not run yet
\*          "run"    Interpreter::interpret is at statement `pc`
\*          "stuck"  the statement at `pc` is still executing at the bounds
\*          "done"   execute_js has its result in `outcome`
\*          "prompt" the loop of repl is at `read_line`
\* ------------------------------------------------------------------------
\* `source` is the text given to the lexer and `lexer` its state; `starts`
\* is history: for each token pushed, the index in `source` of the character
\* scan_token was called with.  `session` is history: the lines the
\* interactive loop has read, with what it did with each.
VARIABLES source, lexer, starts,
          tokens, phase, statements, pc, interp, last_value, outcome, session

vars == <<source, lexer, starts, tokens, phase, statements, pc, interp, last_value, outcome,
          session>>

\* The pipeline after the lexer has returned the tokens of a program.
Init ==
    /\ source = <<>>
    /\ lexer = LexerNew
    /\ starts = <<>>
    /\ tokens \in Programs
    /\ phase = "parse"
    /\ statements = <<>>
    /\ pc = 1
    /\ interp = InterpreterNew
    /\ last_value = Undefined
    /\ outcome = Running
    /\ session = <<>>

\* `let statements = parser.parse()?;` on the parser's result r.
ParseResult(r) ==
    IF r.err
    THEN /\ phase' = "done"
         /\ outcome' = Failed(r.error)
         /\ UNCHANGED statements
    ELSE /\ phase' = "run"
         /\ statements' = r.node
         /\ UNCHANGED outcome

Parse ==
    /\ phase = "parse"
    /\ ParseResult(parse(tokens))
    /\ UNCHANGED <<source, lexer, starts, tokens, pc, interp, last_value, session>>

\* `match self.execute(statement)? { ... }` in Interpreter::interpret, on the
\* statement's result r.
ExecuteResult(r) ==
    /\ interp' = r.st
    /\ CASE r.tag = "Err" ->
              /\ phase' = "done"
              /\ outcome' = Failed(r.error)
              /\ UNCHANGED <<pc, last_value>>
         [] r.tag = "Diverge" ->
              /\ phase' = "stuck"
              /\ UNCHANGED <<pc, last_value, outcome>>
         [] r.tag = "Value" ->
              /\ last_value' = r.value
              /\ pc' = pc + 1
              /\ UNCHANGED <<phase, outcome>>
         [] r.tag = "Return" ->
              /\ phase' = "done"
              /\ outcome' = Finished(r.value, "return")
              /\ UNCHANGED <<pc, last_value>>
         [] r.tag = "None" ->
              /\ pc' = pc + 1
              /\ UNCHANGED <<phase, last_value, outcome>>

\* One iteration of `for statement in statements` in Interpreter::interpret.
Execute ==
    /\ phase = "run"
    /\ pc <= Len(statements)
    /\ ExecuteResult(execute(statements[pc], interp))
    /\ UNCHANGED <<source, lexer, starts, tokens, statements, session>>

\* The loop of interpret is over: `Ok(last_value)`.
Finish ==
    /\ phase = "run"
    /\ pc > Len(statements)
    /\ phase' = "done"
    /\ outcome' = Finished(last_value, "end")
    /\ UNCHANGED <<source, lexer, starts, tokens, statements, pc, interp, last_value, session>>

Next == Parse \/ Execute \/ Finish

Spec == Init /\ [][Next]_vars

\* The pipeline from the source text: `lexer.scan_tokens()?` first.
LexInit ==
    /\ source \in Sources
    /\ lexer = LexerNew
    /\ starts = <<>>
    /\ tokens = <<>>
    /\ phase = "lex"
    /\ statements = <<>>
    /\ pc = 1
    /\ interp = InterpreterNew
    /\ last_value = Undefined
    /\ outcome = Running
    /\ session = <<>>

\* `self.scan_token(c)?` on the lexer state lx it leaves.
ScanResult(lx) ==
    /\ lexer' = lx
    /\ starts' = IF Len(lx.tokens) > Len(lexer.tokens)
                 THEN Append(starts, lexer.current + 1) ELSE starts
    /\ IF lx.error.some
       THEN phase' = "done" /\ outcome' = Failed(lx.error.v)
       ELSE UNCHANGED <<phase, outcome>>

\* One iteration of `while let Some(c) = self.advance()` in scan_tokens.
ScanToken ==
    /\ phase = "lex"
    /\ lexer.current < Len(source)
    /\ ScanResult(scan_token(source, lexer_advance(lexer), source[lexer.current + 1]))
    /\ UNCHANGED <<source, tokens, statements, pc, interp, last_value, session>>

\* The end of scan_tokens: the EOF token, then `Ok(self.tokens.clone())`.
ScanEnd ==
    /\ phase = "lex"
    /\ lexer.current >= Len(source)
    /\ lexer' = eof_token(lexer)
    /\ tokens' = eof_token(lexer).tokens
    /\ phase' = "parse"
    /\ UNCHANGED <<source, starts, statements, pc, interp, last_value, outcome, session>>

LexNext == ScanToken \/ ScanEnd \/ Parse \/ Execute \/ Finish

LexSpec == LexInit /\ [][LexNext]_vars

\* `input.trim().is_empty()`
is_blank(input) == \A i \in 1..Len(input) : input[i] \in {" ", "\t", "\r", "\n"}

\* The interactive mode (main.rs repl).  `session` is the list of the lines
\* read so far, each with what the loop did with it: skipped, or the
\* outcome of execute_js that was printed.  Phase "prompt" is the loop at
\* `read_line`.
ReplInit ==
    /\ source = <<>>
    /\ lexer = LexerNew
    /\ starts = <<>>
    /\ tokens = <<>>
    /\ phase = "prompt"
    /\ statements = <<>>
    /\ pc = 1
    /\ interp = InterpreterNew
    /\ last_value = Undefined
    /\ outcome = Running
    /\ session = <<>>

\* A prompt loop that keeps one interpreter for the whole session.
ReadLineShared ==
    /\ phase = "prompt"
    /\ Len(session) < MaxLines
    /\ \E input \in Lines :
          /\ ~is_blank(input)
          /\ source' = input
          /\ lexer' = LexerNew
          /\ starts' = <<>>
          /\ tokens' = <<>>
          /\ statements' = <<>>
          /\ pc' = 1
          /\ last_value' = Undefined
          /\ outcome' = Running
          /\ phase' = "lex"
          /\ UNCHANGED <<interp, session>>

\* `read_line(&mut input)`, then either `continue` on a blank line or the
\* start of execute_js(&input): a new Lexer, and later a new Parser and
\* `Interpreter::new()`, none of which refers to an earlier line.
ReadLine ==
    /\ phase = "prompt"
    /\ Len(session) < MaxLines
    /\ \E input \in Lines :
          IF is_blank(input)
          THEN /\ session' = Append(session, [input |-> input, skipped |-> TRUE])
               /\ UNCHANGED <<source, lexer, starts, tokens, phase, statements, pc,
                              interp, last_value, outcome>>
          ELSE /\ source' = input
               /\ lexer' = LexerNew
               /\ starts' = <<>>
               /\ tokens' = <<>>
               /\ statements' = <<>>
               /\ pc' = 1
               /\ interp' = InterpreterNew
               /\ last_value' = Undefined
               /\ outcome' = Running
               /\ phase' = "lex"
               /\ UNCHANGED session

\* `match execute_js(&input) { Ok(_) => {}, Err(e) => println!("Error: {}", e) }`
\* and the next turn of `loop`.
Report ==
    /\ phase = "done"
    /\ session' = Append(session, [input |-> source, skipped |-> FALSE,
                                   outcome |-> outcome])
    /\ phase' = "prompt"
    /\ UNCHANGED <<source, lexer, starts, tokens, statements, pc, interp, last_value,
                   outcome>>

ReplNext == ReadLine \/ ScanToken \/ ScanEnd \/ Parse \/ Execute \/ Finish \/ Report

ReplSpec == ReplInit /\ [][ReplNext]_vars

\* ------------------------------------------------------------------------
\* Properties
\* ------------------------------------------------------------------------
Range(seq) == {seq[i] : i \in 1..Len(seq)}

Done == phase = "done"

\* C1: successive calls of one closure share the captured variable: in
\* ProgCounter the k-th call n() returns k, and the program's value is 3.
\* (Statements 3, 4 and 5 are the three calls.)
C1_CounterCounts ==
    tokens = ProgCounter =>
        /\ (phase = "run" /\ pc \in 4..6) => last_value = Number(pc - 3)
        /\ Done => outcome = Finished(Number(3), "end")

\* C2: the while loop re-evaluates its condition before every iteration:
\* ProgWhile runs the body exactly three times, terminates and yields 3.
C2_WhileTerminates ==
    tokens = ProgWhile =>
        /\ interp.iters <= 3
        /\ phase # "stuck"
        /\ Done => (interp.iters = 3 /\ outcome = Finished(Number(3), "end"))

\* C3: when the left operand of `or` is truthy, or the left operand of
\* `and` is falsy, the right operand is not evaluated: its call of g is not
\* made, its assignment to x does not happen, its error is not raised.
C3_ShortCircuit ==
    tokens \in DecidedPrograms =>
        /\ ExprVariable("g") \notin Range(interp.calls)
        /\ "x" \in DOMAIN interp.heap[interp.globals].values
               => interp.heap[interp.globals].values["x"] = Number(0)
        /\ outcome.status # "error"

\* C4: a call of a user function whose body executes no return statement
\* yields undefined.
C4_NoReturnYieldsUndefined ==
    (tokens \in NoReturnPrograms /\ Done) => outcome = Finished(Undefined, "end")

\* C5: a function value shares the frame it was created in: an assignment
\* made by the defining scope after the capture is seen by a later call, and
\* an assignment made inside a call is seen by the defining scope; both
\* programs yield 2.
C5_CapturedFrameIsShared ==
    (tokens \in {ProgAssignAfterCapture, ProgAssignInCall} /\ Done)
        => outcome = Finished(Number(2), "end")

\* C6: a function literal evaluated inside a block and called after the
\* block has exited resolves every name that was bound at the literal's
\* evaluation (in the block and in the frames enclosing it): the call
\* raises no error and reads a value the name has held since then.
C6_BlockClosureResolves ==
    \A c \in BlockClosureCases :
        (tokens = c.toks /\ Done) =>
            /\ outcome.status = "ok"
            /\ outcome.value \in c.values

C6_Witness ==
    /\ tokens = ProgBlockOuterAssigned
    /\ Done
    /\ interp.calls = <<ExprVariable("f")>>
    /\ interp.environment = interp.globals

\* C7: scoping is lexical: a free name of a function body is resolved
\* through the parameters and the definition-site chain, never through the
\* caller's local frames; ProgLexical yields 1.
C7_LexicalScoping ==
    \A c \in LexicalCases : (tokens = c.toks /\ Done) => outcome = c.outcome

C7_Witness ==
    /\ tokens = ProgLexical
    /\ Done
    /\ interp.calls = <<ExprVariable("g"), ExprVariable("f")>>
    /\ outcome = Finished(Number(1), "end")

\* C8: for every program that finishes without error, the result is the
\* value of the first return that escapes to the top level (and no later
\* statement has run); otherwise it is the value of the last expression
\* statement executed at the top level or nested in a block, if-branch or
\* while body; otherwise undefined.
C8_InterpretResult ==
    (Done /\ outcome.status = "ok") =>
        /\ outcome.by = "end" => outcome.value = interp.last_expression
        /\ \A c \in ReturnCases :
               tokens = c.toks => (outcome.by = "return" /\ outcome.value = c.value)

\* The precedence ladder: unary > factor > term > comparison > equality >
\* and > or > assignment.
Level(op) ==
    CASE op \in {"Star", "Slash"} -> 6
      [] op \in {"Plus", "Minus"} -> 5
      [] op \in {"Less", "LessEqual", "Greater", "GreaterEqual"} -> 4
      [] op \in {"EqualEqual", "BangEqual"} -> 3
      [] op = "And" -> 2
      [] op = "Or" -> 1

VarA == ExprVariable("a")

VarB == ExprVariable("b")

VarC == ExprVariable("c")

LeftNested(op1, op2) ==
    ExprBinary(ExprBinary(VarA, BinaryOpOf(op1), VarB), BinaryOpOf(op2), VarC)

RightNested(op1, op2) ==
    ExprBinary(VarA, BinaryOpOf(op1), ExprBinary(VarB, BinaryOpOf(op2), VarC))

Parsed == phase # "parse"

\* The one expression statement that follows the three declarations.
ParsedExpression(expr) == Len(statements) = 4 /\ statements[4] = StmtExpression(expr)

\* C9: the parser follows the precedence ladder: of two binary operators
\* of different levels the higher one binds tighter whichever comes first
\* (`a + b * c` is a + (b * c), `a * b + c` is (a * b) + c), a unary
\* operator binds tighter than every binary one (`-a * b` is (-a) * b), and
\* assignment binds loosest.
C9_Precedence ==
    /\ \A op1, op2 \in BinaryTokens :
          (Parsed /\ tokens = ProgBinary(op1, op2) /\ Level(op1) # Level(op2)) =>
              ParsedExpression(IF Level(op2) > Level(op1) THEN RightNested(op1, op2)
                               ELSE LeftNested(op1, op2))
    /\ \A u \in UnaryTokens, op \in BinaryTokens :
          (Parsed /\ tokens = ProgUnary(u, op)) =>
              ParsedExpression(ExprBinary(ExprUnary(UnaryOpOf(u), VarA), BinaryOpOf(op), VarB))
    /\ \A op \in BinaryTokens :
          (Parsed /\ tokens = ProgAssign(op)) =>
              ParsedExpression(ExprAssign("a", ExprBinary(VarB, BinaryOpOf(op), VarC)))

C9_Witness ==
    /\ tokens = ProgBinary("Star", "Plus")
    /\ phase = "run"
    /\ ParsedExpression(LeftNested("Star", "Plus"))

\* C10: binary operators of one level group to the left: `a - b - c` is
\* (a - b) - c (2 for a = 8, b = 4, c = 2), `"hi " + 1 + 2` yields "hi 12"
\* and `1 + 2 + "hi"` yields "3hi".
C10_LeftAssociative ==
    /\ \A op1, op2 \in BinaryTokens :
          (Parsed /\ tokens = ProgBinary(op1, op2) /\ Level(op1) = Level(op2)) =>
              ParsedExpression(LeftNested(op1, op2))
    /\ (Done /\ tokens = ProgBinary("Minus", "Minus")) => outcome = Finished(Number(2), "end")
    /\ (Done /\ tokens = ProgConcatLeft) => outcome = Finished(String("hi 12"), "end")
    /\ (Done /\ tokens = ProgConcatRight) => outcome = Finished(String("3hi"), "end")

C10_Witness ==
    /\ tokens = ProgConcatLeft
    /\ Done
    /\ statements = <<StmtExpression(ExprBinary(ExprBinary(ExprString("hi "), "Add",
                                                           ExprNumber(Whole(1))),
                                                "Add", ExprNumber(Whole(2))))>>
    /\ outcome.value = String("hi 12")

\* The innermost cell of the chain starting at cell `at` whose values hold
\* `name`, or 0 when no cell of the chain holds it.
RECURSIVE Holder(_, _, _)
Holder(heap, at, name) ==
    IF at = 0 THEN 0
    ELSE IF name \in DOMAIN heap[at].values THEN at
    ELSE Holder(heap, heap[at].enclosing, name)

\* The names probed in every environment: bound at the top level of some
\* programs, bound only in inner frames of others, or bound nowhere.
ProbedNames == {"x", "y", "z", "f"}

ProbeValue == Number(7)

\* The interpreter state `st` differs from `interp` only in the binding of
\* `name` in cell `holder`, which is now `value`.
OnlyRebinds(st, holder, name, value) ==
    /\ Len(st.heap) = Len(interp.heap)
    /\ \A c \in 1..Len(interp.heap) : c # holder => st.heap[c] = interp.heap[c]
    /\ st.heap[holder] =
           [interp.heap[holder] EXCEPT
               !.values = [interp.heap[holder].values EXCEPT ![name] = value]]

\* C11: in every environment the interpreter builds, reading a name that no
\* frame of the chain holds fails with ReferenceError, and so does assigning
\* to it, leaving every frame unchanged; assigning to a name the chain holds
\* succeeds and changes only the innermost frame that holds it.
C11_UnboundNames ==
    /\ \A at \in 1..Len(interp.heap), name \in ProbedNames :
          LET st == [interp EXCEPT !.environment = at]
              holder == Holder(interp.heap, at, name)
              read == evaluate(ExprVariable(name), st)
              written == evaluate(ExprAssign(name, ExprNumber(Whole(7))), st)
          IN IF holder = 0
             THEN /\ read.tag = "Err" /\ read.error.kind = "ReferenceError"
                  /\ written.tag = "Err" /\ written.error.kind = "ReferenceError"
                  /\ written.st = st
             ELSE /\ read = Ok(interp.heap[holder].values[name], st)
                  /\ written.tag = "Ok"
                  /\ written.value = ProbeValue
                  /\ OnlyRebinds(written.st, holder, name, ProbeValue)
    /\ (tokens = ProgReadUnbound /\ Done)
          => (outcome.status = "error" /\ outcome.error.kind = "ReferenceError")
    /\ (tokens = ProgAssignUnbound /\ Done)
          => /\ outcome.status = "error" /\ outcome.error.kind = "ReferenceError"
             /\ \A c \in 1..Len(interp.heap) : "y" \notin DOMAIN interp.heap[c].values
             /\ interp.heap[1].values["x"] = Number(5)
             /\ interp.heap[2].values = [n \in {"z"} |-> Number(2)]
    /\ (tokens = ProgAssignShadowed /\ Done)
          => /\ interp.heap[1].values["x"] = Number(1)
             /\ interp.heap[2].values["x"] = Number(3)
             /\ interp.heap[3].values = EmptyMap

\* The assignment `y = 3` of ProgAssignUnbound has failed two frames deep,
\* after `x = 5` went through the block's frame to the global one.
C11_Witness ==
    /\ tokens = ProgAssignUnbound
    /\ Done
    /\ outcome = Failed(ReferenceError("'y' is not defined"))
    /\ Len(interp.heap) = 2
    /\ interp.heap[2].enclosing = 1
    /\ Holder(interp.heap, 2, "x") = 1
    /\ Holder(interp.heap, 2, "y") = 0

\* The operand kinds for which an arithmetic or comparison operator is
\* defined: `+` on two numbers or with a string on either side, every other
\* operator on two numbers.
InTable(op, left, right) ==
    IF op = "Plus"
    THEN (left = "Number" /\ right = "Number") \/ left = "String" \/ right = "String"
    ELSE left = "Number" /\ right = "Number"

\* One value of every kind, the native function included.
KindValues ==
    {Number(1), String("a"), Boolean(TRUE), Null, Undefined,
     Function(<<>>, StmtBlock(<<>>), new_environment), NativeFunction("console.log")}

IsTypeError(r) == r.tag = "Err" /\ r.error.kind = "TypeError"

\* C12: an arithmetic or comparison operator applied to operand kinds
\* outside the table fails with TypeError and produces no value: the program
\* ends with that error, for every operator and every pair of operand kinds,
\* and so does unary minus on every operand that is not a number.
C12_TypeErrors ==
    /\ \A op \in ArithmeticTokens, l \in TypedOperands, r \in TypedOperands :
          (Done /\ tokens = ProgTyped(op, l.toks, r.toks)
                /\ ~InTable(op, l.kind, r.kind))
              => (outcome.status = "error" /\ outcome.error.kind = "TypeError")
    /\ \A r \in TypedOperands :
          (Done /\ tokens = ProgNegate(r.toks) /\ r.kind # "Number")
              => (outcome.status = "error" /\ outcome.error.kind = "TypeError")
    /\ \A op \in ArithmeticTokens, a \in KindValues, b \in KindValues :
          ~InTable(op, a.kind, b.kind) => IsTypeError(binary(BinaryOpOf(op), a, b, interp))
    /\ \A a \in KindValues : a.kind # "Number" => IsTypeError(negate(a, interp))

\* `"a" - 1` has been evaluated and has failed.
C12_Witness ==
    /\ tokens = ProgTyped("Minus", <<Str("a")>>, <<Num(1)>>)
    /\ Done
    /\ pc = 3
    /\ outcome = Failed(TypeError("Cannot subtract 1 from \"a\""))

\* The 1-based line and column of the k-th character of a source.
Newlines(src, k) == {i \in 1..(k - 1) : src[i] = "\n"}

LineOf(src, k) == 1 + Cardinality(Newlines(src, k))

ColumnOf(src, k) ==
    IF Newlines(src, k) = {} THEN k
    ELSE k - (CHOOSE i \in Newlines(src, k) : \A j \in Newlines(src, k) : j <= i)

\* C13: the line and column of every token the lexer has emitted are the
\* line and column of the token's first character in the source.
C13_TokenPositions ==
    \A i \in 1..Len(starts) :
        /\ lexer.tokens[i].line = LineOf(source, starts[i])
        /\ lexer.tokens[i].column = ColumnOf(source, starts[i])

\* The text left of a source when comments and the whitespace outside
\* string literals are removed; `mode` is "code", "string" or "comment" at
\* character i.
RECURSIVE Strip(_, _, _)
Strip(src, i, mode) ==
    IF i > Len(src) THEN ""
    ELSE CASE mode = "string" ->
                src[i] \o Strip(src, i + 1, IF src[i] = "\"" THEN "code" ELSE "string")
           [] mode = "comment" ->
                Strip(src, i + 1, IF src[i] = "\n" THEN "code" ELSE "comment")
           [] mode = "code" ->
                IF src[i] = "\"" THEN src[i] \o Strip(src, i + 1, "string")
                ELSE IF src[i] = "/" /\ i < Len(src) /\ src[i + 1] = "/"
                THEN Strip(src, i + 2, "comment")
                ELSE IF src[i] \in {" ", "\r", "\t", "\n"} THEN Strip(src, i + 1, "code")
                ELSE src[i] \o Strip(src, i + 1, "code")

\* The lexemes of a token vector, concatenated in order.
RECURSIVE Lexemes(_)
Lexemes(toks) == IF toks = <<>> THEN "" ELSE Head(toks).lexeme \o Lexemes(Tail(toks))

Lexed == phase # "lex" /\ ~lexer.error.some /\ Len(lexer.tokens) > 0

\* C14: when a source has been lexed without error, the lexemes of the
\* tokens returned, concatenated in order (the EOF token's is empty), are
\* the source without its comments and its whitespace outside strings.
C14_LexemesRebuildSource ==
    Lexed => Lexemes(tokens) = Strip(source, 1, "code")

\* A source with a comment and whitespace between its tokens has been
\* lexed: `1 + 2; // sum`, newline, `3 / 4;`.
C14_Witness ==
    /\ source = SrcComment
    /\ Lexed
    /\ Len(tokens) = 9
    /\ tokens[9].token_type = "EOF"
    /\ Lexemes(tokens) = "1+2;3/4;"

\* C15: the branch `if` takes depends only on the truthiness of the
\* condition value: false, null, undefined, 0, -0, NaN and "" select the
\* else-branch (nothing when there is none), every other value the
\* then-branch.
C15_IfTruthiness ==
    \A c \in Conditions :
        /\ (Done /\ tokens = ProgIfElse(c.toks))
              => outcome = Finished(Number(IF c.truthy THEN 1 ELSE 2), "end")
        /\ (Done /\ tokens = ProgIfOnly(c.toks))
              => outcome = Finished(IF c.truthy THEN Number(1) ELSE Undefined, "end")

\* `if ("") { 1; } else { 2; }` has taken its else-branch.
C15_Witness ==
    /\ tokens = ProgIfElse(<<Str("")>>)
    /\ Done
    /\ pc = 4
    /\ Len(interp.heap) = 2
    /\ outcome = Finished(Number(2), "end")

\* Numbers of every sort: zeros, finite of both signs, infinities, NaN.
NumberValues ==
    {Number(0), NegZero, Number(1), Number(-1), Number(8), Fraction(1, 2), Fraction(-5, 4),
     Infinity, NegInfinity, NaN}

\* C16: a number divided by a zero divisor (0 or -0) is positive infinity,
\* whatever the dividend, and no error is raised.
C16_DivisionByZero ==
    /\ \A a \in Dividends, z \in ZeroDivisors :
          (Done /\ tokens = ProgDivide(a, z)) => outcome = Finished(Infinity, "end")
    /\ \A a \in NumberValues, z \in {Number(0), NegZero} :
          divide(a, z, interp) = Ok(Infinity, interp)

\* -1 has been divided by -0.
C16_Witness ==
    /\ tokens = ProgDivide(<<MINUS, Num(1)>>, <<MINUS, Num(0)>>)
    /\ Done
    /\ interp.heap[1].values["z"] = NegZero
    /\ interp.heap[1].values["a"] = Number(-1)
    /\ outcome = Finished(Infinity, "end")

\* C17: once `function f(n) {...}` has executed, f is bound in the
\* environment f captured, to f itself, and the call of f from its own body
\* resolves: f(1) calls f(0) and the program yields 0.
C17_DeclaredFunctionSeesItself ==
    /\ (tokens = ProgSelfCall /\ phase = "run" /\ pc >= 2)
          => /\ "f" \in DOMAIN interp.heap[1].values["f"].closure.values
             /\ interp.heap[1].values["f"].closure.values["f"] = interp.heap[1].values["f"]
    /\ (tokens \in {ProgSelfCall, ProgSelfCallInBlock} /\ Done)
          => outcome = Finished(Number(0), "end")

\* C18: when the execution of a block or of a user-function call has ended,
\* by normal completion, by a return or by a runtime error, the current
\* environment is the frame that was current when it was entered.  Between
\* and after the top-level statements every block and call has ended, and
\* the frame they were entered from is the global one.
C18_EnvironmentRestored ==
    phase \in {"run", "done"} => interp.environment = interp.globals

\* C19: a return executed inside a function body, however deep in blocks,
\* if-branches and while bodies, stops the rest of that body (the calls of g
\* that follow it are never made) and is the value of the nearest call only:
\* the caller goes on with its next statements and the program ends by
\* running to its end, not by a return.
C19_ReturnEndsNearestCall ==
    \A c \in ReturnInCallCases :
        /\ tokens = c.toks => phase # "stuck"
        /\ (tokens = c.toks /\ Done)
              => /\ outcome = Finished(c.value, "end")
                 /\ interp.calls = c.calls

\* f returned from inside a block in a while body; h went on to call g.
C19_Witness ==
    /\ tokens = ProgReturnToCaller
    /\ Done
    /\ interp.iters = 1
    /\ interp.calls = <<ExprVariable("h"), ExprVariable("f"), ExprVariable("g")>>
    /\ outcome = Finished(Number(110), "end")

\* C20: a while statement evaluates its condition exactly once.  A falsy
\* value: the body never runs and the statement produces nothing.  A truthy
\* value: the body runs again and again whatever becomes of the variables
\* of the condition, until it returns (the return is propagated) or raises
\* an error; a body that does neither never lets the statement end.
C20_WhileConditionOnce ==
    /\ (tokens = ProgWhileFalsy /\ Done)
          => /\ outcome = Finished(Number(7), "end")
             /\ interp.calls = <<ExprVariable("c")>>
             /\ interp.iters = 0
    /\ (tokens = ProgWhileCondition /\ Done)
          => /\ outcome = Finished(Number(3), "return")
             /\ interp.calls = <<ExprVariable("c")>>
             /\ interp.iters = 3
    /\ (tokens = ProgWhileStale /\ Done)
          => /\ outcome = Finished(Number(4), "return")
             /\ interp.iters = 4
    /\ (tokens = ProgWhileError /\ Done)
          => /\ outcome = Failed(ReferenceError("'x' is not defined"))
             /\ interp.iters = 3
    /\ tokens \in WhilePrograms => phase # "stuck"
    /\ tokens = ProgWhile => (pc <= 2 /\ ~Done)

\* The loop on `i < 2` has run its body four times and ended by the return.
C20_Witness ==
    /\ tokens = ProgWhileStale
    /\ Done
    /\ interp.iters = 4
    /\ interp.heap[1].values["i"] = Number(4)
    /\ outcome.by = "return"

\* C21: an assignment is accepted only when its left-hand side is a bare
\* identifier token: a parenthesized identifier, a literal, a call and a
\* binary expression on the left of `=` each fail with the ParserError
\* "Invalid assignment target", and `a = b = 3` parses as
\* Assign(a, Assign(b, 3)).
C21_AssignmentTargets ==
    /\ (tokens \in InvalidTargetPrograms /\ Parsed)
          => /\ outcome.status = "error"
             /\ outcome.error.kind = "ParserError"
             /\ outcome.error.message = "Invalid assignment target."
    /\ (tokens = ProgAssignChain /\ Parsed)
          => /\ Len(statements) = 3
             /\ statements[3] = StmtExpression(
                    ExprAssign("a", ExprAssign("b", ExprNumber(Whole(3)))))

\* C22: a number token is made of digits with at most one `.`: a second `.`
\* ends the token and is not consumed into it, so once scanning `1.2.3` has
\* left its first character the first token is the number 1.2, with the
\* lexeme `1.2`, and no error has been raised by it.
C22_SecondDotEndsNumber ==
    (source = SrcTwoDots /\ lexer.current > 0)
        => /\ Len(lexer.tokens) >= 1
           /\ lexer.tokens[1].token_type = "Number"
           /\ lexer.tokens[1].number = [num |-> 6, den |-> 5]
           /\ lexer.tokens[1].lexeme = "1.2"

\* What a name resolves to from the current environment.
Resolves(name) == get(interp.heap, interp.heap[interp.environment], name)

\* The value the probe `y = ...` has left in the global frame.
Probed == interp.heap[interp.globals].values["y"]

\* C23: a declaration executed inside a block binds the name in the frame
\* of that block only.  Each program declares x = 1 globally and declares
\* x (or t) again inside blocks: the probe y (r inside the function body)
\* shows the block's own binding inside the block, and from the declaration of the global x on, between
\* and after the top-level statements, x resolves to 1 and t to a
\* ReferenceError, as they did before the block was entered.
C23_BlockDeclarations ==
    /\ (tokens \in BlockDeclarationPrograms /\ phase = "run" /\ pc > 1)
          => /\ Resolves("x") = [err |-> FALSE, value |-> Number(1)]
             /\ Resolves("t").err
             /\ Resolves("t").error = ReferenceError("'t' is not defined")
    /\ (tokens = ProgDeclShadow /\ Done)
          => Probed = Number(2) /\ outcome = Finished(Number(1), "end")
    /\ (tokens = ProgDeclLocalOnly /\ Done)
          => /\ Probed = Number(5)
             /\ outcome = Failed(ReferenceError("'t' is not defined"))
    /\ (tokens = ProgDeclNested /\ Done)
          => Probed = Number(32) /\ outcome = Finished(Number(1), "end")
    /\ (tokens = ProgDeclUninitialized /\ Done)
          => Probed = Undefined /\ outcome = Finished(Number(1), "end")
    /\ (tokens = ProgDeclInCall /\ Done)
          => outcome = Finished(Number(871), "end")

\* The nested blocks have exited: the two block frames hold x = 2 and
\* x = 3, the global frame still holds x = 1.
C23_Witness ==
    /\ tokens = ProgDeclNested
    /\ Done
    /\ Len(interp.heap) = 3
    /\ interp.heap[2].values["x"] = Number(2)
    /\ interp.heap[3].values["x"] = Number(3)
    /\ interp.heap[1].values["x"] = Number(1)
    /\ Probed = Number(32)

\* The index of the end-of-stream sentinel: the first EOF token of the
\* vector, as a value of the 0-based cursor.
Sentinel(toks) ==
    (CHOOSE i \in 1..Len(toks) :
        /\ toks[i].token_type = "EOF"
        /\ \A j \in 1..(i - 1) : toks[j].token_type # "EOF") - 1

\* A parsing function started at `cur` has failed, or has moved the cursor
\* forward and not past the sentinel.
Consumes(r, cur, toks) == r.err \/ (cur < r.current /\ r.current <= Sentinel(toks))

\* The result of parse is a ParserError or a statement list with the
\* cursor on the sentinel.
Terminated(r, toks) ==
    IF r.err THEN r.error.kind = "ParserError"
    ELSE /\ r.current = Sentinel(toks)
         /\ \A i \in 1..Len(r.node) :
               r.node[i].s \in {"Expression", "Declaration", "Block", "If", "While",
                                "Return", "Function"}

\* What the program has kept of the result of parse.
Kept(r) ==
    IF r.err THEN phase = "done" /\ outcome = Failed(r.error)
    ELSE statements = r.node

\* C24: on every token vector that ends with the EOF sentinel, parse ends
\* with a statement list or a ParserError.  From every cursor position up to
\* the sentinel, the body of the statement loops (declaration) and of the
\* argument loop (expression) fails or consumes at least one token and
\* stops at or before the sentinel; advance moves by one before the
\* sentinel and stays on it, so the token previous() reads after an advance
\* is at a cursor of at least 1; once parsing is over the outcome is a
\* ParserError or the program runs on the statement list.
C24_ParserTerminates ==
    /\ phase = "parse"
          => /\ Terminated(parse(tokens), tokens)
             /\ \A cur \in 0..Sentinel(tokens) :
                   /\ Consumes(declaration(tokens, cur), cur, tokens)
                   /\ Consumes(expression(tokens, cur), cur, tokens)
                   /\ advance(tokens, cur) = IF cur < Sentinel(tokens) THEN cur + 1 ELSE cur
                   /\ cur < Sentinel(tokens) => advance(tokens, cur) >= 1
    /\ (tokens \in ParserVectors /\ Parsed)
          => Kept(parse(tokens))
    /\ (tokens = ProgLoops /\ Parsed)
          => Len(statements) = 2 /\ statements[1].s = "Function"

\* The program that uses every parsing loop has been parsed to its two
\* statements: the cursor went from 0 to the sentinel.
C24_Witness ==
    /\ tokens = ProgLoops
    /\ phase = "run"
    /\ pc = 1
    /\ Len(statements) = 2
    /\ statements[2].expr.e = "Call"
    /\ parse(tokens).current = Sentinel(tokens)
    /\ Sentinel(tokens) = Len(LoopsText)

\* What the loop printed for the k-th line of the session.
Printed(k) == session[k].outcome

IsError(o, kind) == o.status = "error" /\ o.error.kind = kind

\* C25: in interactive mode every line is evaluated by a new interpreter
\* with a fresh global environment.  Interpretation of a line starts from
\* Interpreter::new(); whatever lines came before, reading or assigning x
\* and calling f fail with a ReferenceError although earlier lines declared
\* them, while a name declared on the same line is visible; and after an
\* error the loop is back at the prompt and reads the next line.
C25_FreshInterpreterPerLine ==
    /\ (phase \in {"lex", "parse"} \/ (phase = "run" /\ pc = 1))
          => interp = InterpreterNew
    /\ \A k \in 1..Len(session) :
          /\ session[k].skipped <=> session[k].input = LineBlank
          /\ session[k].input \in {LineReadX, LineAssignX}
                => Printed(k) = Failed(ReferenceError("'x' is not defined"))
          /\ session[k].input = LineCallF
                => Printed(k) = Failed(ReferenceError("'f' is not defined"))
          /\ session[k].input \in {LineDeclareX, LineDeclareF}
                => Printed(k) = Finished(Undefined, "end")
          /\ session[k].input = LineDeclareAndReadX
                => Printed(k) = Finished(Number(1), "end")
          /\ session[k].input = LineLexerError => IsError(Printed(k), "LexerError")
          /\ session[k].input = LineParserError => IsError(Printed(k), "ParserError")
    /\ phase = "done" => ENABLED Report
    /\ (phase = "prompt" /\ Len(session) < MaxLines) => ENABLED ReadLine

\* A session of three lines: x is declared, then read (ReferenceError), and
\* after that error a third line has still been read and evaluated.
C25_Witness ==
    /\ phase = "prompt"
    /\ Len(session) = 3
    /\ session[1].input = LineDeclareX
    /\ Printed(1) = Finished(Undefined, "end")
    /\ session[2].input = LineReadX
    /\ Printed(2) = Failed(ReferenceError("'x' is not defined"))
    /\ session[3].input = LineDeclareAndReadX
    /\ Printed(3) = Finished(Number(1), "end")

====
